---- MODULE Spec2Model ----
(***************************************************************************)
(* Bytelense backend: the scan orchestrator (app/api/scan.py), the scoring *)
(* engine (app/services/scoring.py) and the components they drive.         *)
(*                                                                         *)
(* Numbers: scores are in tenths (5.0 is 50), confidences and data quality *)
(* scores in thousandths (0.6 is 600), nutrient amounts in whole grams or  *)
(* milligrams.  Text is a sequence of one-character strings, so that       *)
(* lower() and the substring test `x in y` are computed, not assumed.     *)
(***************************************************************************)
EXTENDS Integers, Sequences, FiniteSets, TLC

\* Python's None for text/object values, and for optional numbers.
None == "None"
NoneNum == -1

(***************************************************************************)
(* Text                                                                    *)
(***************************************************************************)
W_peanut == <<"p","e","a","n","u","t">>
W_Peanut == <<"P","e","a","n","u","t">>
W_nut == <<"n","u","t">>
W_milk == <<"m","i","l","k">>
W_Milk == <<"M","i","l","k">>
W_oats == <<"o","a","t","s">>
W_PeanutOil == <<"P","e","a","n","u","t"," ","o","i","l">>
W_Good == <<"G","o","o","d">>
W_good == <<"g","o","o","d">>
W_avoid == <<"a","v","o","i","d">>
W_AVOID == <<"A","V","O","I","D">>
W_ok == <<"o","k">>
W_goodOrAvoid == <<"a","v","o","i","d"," ","o","r"," ","g","o","o","d">>

\* str.lower() on one character
LowerChar(c) ==
    CASE c = "P" -> "p"
      [] c = "M" -> "m"
      [] c = "G" -> "g"
      [] c = "A" -> "a"
      [] c = "V" -> "v"
      [] c = "O" -> "o"
      [] c = "I" -> "i"
      [] c = "D" -> "d"
      [] OTHER -> c

\* str.lower()
Lower(w) == [i \in 1..Len(w) |-> LowerChar(w[i])]

\* Python's `a in b` on two strings
IsSubstring(a, b) ==
    \E i \in 0..(Len(b) - Len(a)) : SubSeq(b, i + 1, i + Len(a)) = a

\* " ".join(words)
RECURSIVE JoinSpace(_)
JoinSpace(ws) ==
    IF Len(ws) = 0 THEN <<>>
    ELSE IF Len(ws) = 1 THEN ws[1]
    ELSE ws[1] \o <<" ">> \o JoinSpace(Tail(ws))

Min(a, b) == IF a < b THEN a ELSE b
Max(a, b) == IF a > b THEN a ELSE b

\* Python truthiness of an optional number: None and 0 are falsy
TruthyNum(x) == x # NoneNum /\ x # 0


(***************************************************************************)
(* Citation ledger (app/services/citation_manager.py)                      *)
(***************************************************************************)
\* CitationManager.__init__
NewCitationManager ==
    [sources |-> <<>>, citation_map |-> [u \in {} |-> 0], next_id |-> 1]

\* snippet[:200]
SnippetLimit == 200
Truncate(snippet) ==
    IF Len(snippet) > SnippetLimit THEN SubSeq(snippet, 1, SnippetLimit) ELSE snippet

\* CitationManager.add_source: the id it returns
add_source_id(mgr, url) ==
    IF url \in DOMAIN mgr.citation_map THEN mgr.citation_map[url] ELSE mgr.next_id

\* add_source overwriting the entry of a URL it already holds
add_source_overwrite(mgr, url, title, snippet, source_type, now) ==
    IF url \in DOMAIN mgr.citation_map
    THEN [mgr EXCEPT !.sources =
              [i \in 1..Len(mgr.sources) |->
                  IF mgr.sources[i].url = url
                  THEN [mgr.sources[i] EXCEPT !.title = title, !.accessed = now]
                  ELSE mgr.sources[i]]]
    ELSE [sources |-> Append(mgr.sources,
                        [id |-> mgr.next_id, url |-> url, title |-> title,
                         snippet |-> Truncate(snippet), accessed |-> now,
                         source_type |-> source_type]),
          citation_map |-> [u \in DOMAIN mgr.citation_map \cup {url} |->
                              IF u = url THEN mgr.next_id ELSE mgr.citation_map[u]],
          next_id |-> mgr.next_id + 1]

\* CitationManager.add_source: the manager after the call made at time now
add_source(mgr, url, title, snippet, source_type, now) ==
    IF url \in DOMAIN mgr.citation_map THEN mgr
    ELSE [sources |-> Append(mgr.sources,
                        [id |-> mgr.next_id, url |-> url, title |-> title,
                         snippet |-> Truncate(snippet), accessed |-> now,
                         source_type |-> source_type]),
          citation_map |-> [u \in DOMAIN mgr.citation_map \cup {url} |->
                              IF u = url THEN mgr.next_id ELSE mgr.citation_map[u]],
          next_id |-> mgr.next_id + 1]

\* CitationManager._get_authority_score (thousandths)
_get_authority_score(source_type) ==
    CASE source_type = "openfoodfacts" -> 900
      [] source_type = "who" -> 950
      [] source_type = "fda" -> 950
      [] source_type = "usda" -> 950
      [] source_type = "searxng" -> 700
      [] OTHER -> 600

\* CitationManager.generate_citation_objects
generate_citation_objects(mgr) ==
    [i \in 1..Len(mgr.sources) |->
        [id |-> mgr.sources[i].id, url |-> mgr.sources[i].url,
         title |-> mgr.sources[i].title, snippet |-> mgr.sources[i].snippet,
         accessed |-> mgr.sources[i].accessed,
         source_type |-> mgr.sources[i].source_type,
         authority_score |-> _get_authority_score(mgr.sources[i].source_type)]]

\* clear() without the reset of next_id
clear_keeps_next_id(mgr) == [NewCitationManager EXCEPT !.next_id = mgr.next_id]

\* CitationManager.clear
clear(mgr) == NewCitationManager

(***************************************************************************)
(* Scoring engine (app/services/scoring.py, app/models/dspy_modules.py)    *)
(***************************************************************************)
\* NutritionScoringService._check_allergens: the loop body for one allergen
AllergenWarnings_cased(allergen, nutrition_data) ==
    LET allergen_lower == Lower(allergen)
        ingredients_text == Lower(JoinSpace(nutrition_data.ingredients))
        inTags == \E i \in 1..Len(nutrition_data.allergens) :
                     IsSubstring(allergen_lower, nutrition_data.allergens[i])
    IN  (IF inTags THEN << <<"Contains", allergen>> >> ELSE <<>>)
        \o (IF IsSubstring(allergen_lower, ingredients_text)
            THEN << <<"May contain in ingredients", allergen>> >> ELSE <<>>)

AllergenWarnings(allergen, nutrition_data) ==
    LET allergen_lower == Lower(allergen)
        ingredients_text == Lower(JoinSpace(nutrition_data.ingredients))
        inTags == \E i \in 1..Len(nutrition_data.allergens) :
                     IsSubstring(allergen_lower, Lower(nutrition_data.allergens[i]))
    IN  (IF inTags THEN << <<"Contains", allergen>> >> ELSE <<>>)
        \o (IF IsSubstring(allergen_lower, ingredients_text)
            THEN << <<"May contain in ingredients", allergen>> >> ELSE <<>>)

RECURSIVE CheckAllergensFrom(_, _)
CheckAllergensFrom(allergies, nutrition_data) ==
    IF Len(allergies) = 0 THEN <<>>
    ELSE AllergenWarnings(Head(allergies), nutrition_data)
         \o CheckAllergensFrom(Tail(allergies), nutrition_data)

\* NutritionScoringService._check_allergens
_check_allergens(nutrition_data, user_profile) ==
    CheckAllergensFrom(user_profile.allergies, nutrition_data)

\* NutritionScoringService._create_allergen_fail_result
_create_allergen_fail_result(nutrition_data, warnings, citation_mgr) ==
    [score |-> 0, verdict |-> "avoid", warnings |-> warnings, highlights |-> <<>>,
     citations |-> generate_citation_objects(citation_mgr),
     confidence |-> 1000, data_quality_score |-> 1000,
     reasoning_steps |-> <<"Allergen check failed">>]

\* A numeric field that float() cannot coerce
BadNum == -2

RequiredFields == <<"product_name", "calories", "protein_g", "carbs_g", "fat_g">>
NumericFields == <<"calories", "protein_g", "carbs_g", "fat_g",
                   "sugar_g", "sodium_mg", "fiber_g", "saturated_fat_g">>

\* `not raw_data.get(f)`: absent, None, 0 and "" are all falsy
FieldFalsy(raw_data, f) ==
    \/ f \notin DOMAIN raw_data
    \/ IF f = "product_name" THEN raw_data[f] = <<>>
       ELSE raw_data[f] = NoneNum \/ raw_data[f] = 0

\* float(value) raises for a numeric field that is present and not None
Uncoercible(raw_data, f) ==
    /\ \E i \in 1..Len(NumericFields) : NumericFields[i] = f
    /\ f \in DOMAIN raw_data
    /\ raw_data[f] = BadNum

\* DataCleanerAgent.clean: <<cleaned, quality_score>>
clean(raw_data) ==
    LET missing == {i \in 1..Len(RequiredFields) : FieldFalsy(raw_data, RequiredFields[i])}
        bad == {i \in 1..Len(NumericFields) : Uncoercible(raw_data, NumericFields[i])}
        q1 == 1000 - 200 * Cardinality(missing)
        q2 == q1 - 50 * Cardinality(bad)
        cleaned == [f \in DOMAIN raw_data |->
                      IF Uncoercible(raw_data, f) THEN 0 ELSE raw_data[f]]
        conf == IF "confidence" \in DOMAIN cleaned THEN cleaned.confidence ELSE 1000
        q3 == IF conf < 700 THEN (q2 * conf) \div 1000 ELSE q2
    IN  <<cleaned, Max(q3, 0)>>

\* _fallback_scoring with the sugar test taken as >=
_fallback_scoring_ge(nutrition_data, user_profile, data_quality_score, citation_mgr) ==
    LET targets == user_profile.daily_targets
        sugarHigh == nutrition_data.sugar_g * 10 >= targets.sugar_g * 5
        sodiumHigh == nutrition_data.sodium_mg * 10 > targets.sodium_mg * 3
        proteinGood == nutrition_data.protein_g > 10
        fiberHigh == TruthyNum(nutrition_data.fiber_g) /\ nutrition_data.fiber_g > 5
        s4 == 50 - (IF sugarHigh THEN 20 ELSE 0) - (IF sodiumHigh THEN 20 ELSE 0)
                 + (IF proteinGood THEN 10 ELSE 0) + (IF fiberHigh THEN 10 ELSE 0)
        score == Max(0, Min(100, s4))
    IN  [score |-> score,
         verdict |-> IF score >= 70 THEN "good"
                     ELSE IF score >= 40 THEN "moderate" ELSE "avoid",
         warnings |-> (IF sugarHigh THEN <<"High sugar content">> ELSE <<>>)
                      \o (IF sodiumHigh THEN <<"High sodium">> ELSE <<>>),
         highlights |-> (IF sugarHigh THEN <<>> ELSE <<"Low sugar">>)
                        \o (IF sodiumHigh THEN <<>> ELSE <<"Low sodium">>)
                        \o (IF proteinGood THEN <<"Good protein source">> ELSE <<>>)
                        \o (IF fiberHigh THEN <<"High fiber">> ELSE <<>>),
         citations |-> generate_citation_objects(citation_mgr),
         confidence |-> 600, data_quality_score |-> data_quality_score,
         reasoning_steps |-> <<"Rule-based fallback scoring">>]

\* _fallback_scoring with a protein bonus of 2.0
_fallback_scoring_protein2(nutrition_data, user_profile, data_quality_score, citation_mgr) ==
    LET targets == user_profile.daily_targets
        sugarHigh == nutrition_data.sugar_g * 10 > targets.sugar_g * 5
        sodiumHigh == nutrition_data.sodium_mg * 10 > targets.sodium_mg * 3
        proteinGood == nutrition_data.protein_g > 10
        fiberHigh == TruthyNum(nutrition_data.fiber_g) /\ nutrition_data.fiber_g > 5
        s1 == 50 - (IF sugarHigh THEN 20 ELSE 0)
        s2 == s1 - (IF sodiumHigh THEN 20 ELSE 0)
        s3 == s2 + (IF proteinGood THEN 20 ELSE 0)
        s4 == s3 + (IF fiberHigh THEN 10 ELSE 0)
        score == Max(0, Min(100, s4))
        warnings == (IF sugarHigh THEN <<"High sugar content">> ELSE <<>>)
                    \o (IF sodiumHigh THEN <<"High sodium">> ELSE <<>>)
        highlights == (IF sugarHigh THEN <<>> ELSE <<"Low sugar">>)
                      \o (IF sodiumHigh THEN <<>> ELSE <<"Low sodium">>)
                      \o (IF proteinGood THEN <<"Good protein source">> ELSE <<>>)
                      \o (IF fiberHigh THEN <<"High fiber">> ELSE <<>>)
    IN  [score |-> score,
         verdict |-> IF score >= 70 THEN "good"
                     ELSE IF score >= 40 THEN "moderate" ELSE "avoid",
         warnings |-> warnings, highlights |-> highlights,
         citations |-> generate_citation_objects(citation_mgr),
         confidence |-> 600, data_quality_score |-> data_quality_score,
         reasoning_steps |-> <<"Rule-based fallback scoring">>]

\* NutritionScoringService._fallback_scoring
_fallback_scoring(nutrition_data, user_profile, data_quality_score, citation_mgr) ==
    LET targets == user_profile.daily_targets
        sugarHigh == nutrition_data.sugar_g * 10 > targets.sugar_g * 5
        sodiumHigh == nutrition_data.sodium_mg * 10 > targets.sodium_mg * 3
        proteinGood == nutrition_data.protein_g > 10
        fiberHigh == TruthyNum(nutrition_data.fiber_g) /\ nutrition_data.fiber_g > 5
        s1 == 50 - (IF sugarHigh THEN 20 ELSE 0)
        s2 == s1 - (IF sodiumHigh THEN 20 ELSE 0)
        s3 == s2 + (IF proteinGood THEN 10 ELSE 0)
        s4 == s3 + (IF fiberHigh THEN 10 ELSE 0)
        score == Max(0, Min(100, s4))
        warnings == (IF sugarHigh THEN <<"High sugar content">> ELSE <<>>)
                    \o (IF sodiumHigh THEN <<"High sodium">> ELSE <<>>)
        highlights == (IF sugarHigh THEN <<>> ELSE <<"Low sugar">>)
                      \o (IF sodiumHigh THEN <<>> ELSE <<"Low sodium">>)
                      \o (IF proteinGood THEN <<"Good protein source">> ELSE <<>>)
                      \o (IF fiberHigh THEN <<"High fiber">> ELSE <<>>)
    IN  [score |-> score,
         verdict |-> IF score >= 70 THEN "good"
                     ELSE IF score >= 40 THEN "moderate" ELSE "avoid",
         warnings |-> warnings, highlights |-> highlights,
         citations |-> generate_citation_objects(citation_mgr),
         confidence |-> 600, data_quality_score |-> data_quality_score,
         reasoning_steps |-> <<"Rule-based fallback scoring">>]


\* float(text) for the texts the model draws: an optional sign, one or two
\* digits, an optional fraction digit.  The value is in tenths; anything
\* else (None included) is the ValueError/TypeError case.
DigitVal(c) ==
    CASE c = "0" -> 0 [] c = "1" -> 1 [] c = "2" -> 2 [] c = "3" -> 3
      [] c = "4" -> 4 [] c = "5" -> 5 [] c = "6" -> 6 [] c = "7" -> 7
      [] c = "8" -> 8 [] c = "9" -> 9 [] OTHER -> -1

IsDigit(c) == DigitVal(c) >= 0

ParseUnsigned(t) ==
    IF Len(t) = 1 /\ IsDigit(t[1])
        THEN [ok |-> TRUE, val |-> 10 * DigitVal(t[1])]
    ELSE IF Len(t) = 2 /\ IsDigit(t[1]) /\ IsDigit(t[2])
        THEN [ok |-> TRUE, val |-> 100 * DigitVal(t[1]) + 10 * DigitVal(t[2])]
    ELSE IF Len(t) = 3 /\ IsDigit(t[1]) /\ t[2] = "." /\ IsDigit(t[3])
        THEN [ok |-> TRUE, val |-> 10 * DigitVal(t[1]) + DigitVal(t[3])]
    ELSE IF Len(t) = 4 /\ IsDigit(t[1]) /\ IsDigit(t[2]) /\ t[3] = "." /\ IsDigit(t[4])
        THEN [ok |-> TRUE, val |-> 100 * DigitVal(t[1]) + 10 * DigitVal(t[2]) + DigitVal(t[4])]
    ELSE [ok |-> FALSE, val |-> 0]

ParseFloat(t) ==
    IF Len(t) >= 2 /\ t[1] = "-"
    THEN LET u == ParseUnsigned(Tail(t)) IN [ok |-> u.ok, val |-> 0 - u.val]
    ELSE ParseUnsigned(t)

\* _parse_score without the clamp of line 224
_parse_score_unclamped(score_str) ==
    LET f == ParseFloat(score_str)
    IN  IF f.ok THEN f.val ELSE 50

\* NutritionScoringService._parse_score (tenths)
_parse_score(score_str) ==
    LET f == ParseFloat(score_str)
    IN  IF f.ok THEN Max(0, Min(100, f.val)) ELSE 50

\* _parse_verdict testing "avoid" before "good"
_parse_verdict_avoid_first(verdict_str) ==
    LET verdict_lower == Lower(verdict_str)
    IN  IF IsSubstring(W_avoid, verdict_lower) THEN "avoid"
        ELSE IF IsSubstring(W_good, verdict_lower) THEN "good"
        ELSE "moderate"

\* NutritionScoringService._parse_verdict
_parse_verdict(verdict_str) ==
    LET verdict_lower == Lower(verdict_str)
    IN  IF IsSubstring(W_good, verdict_lower) THEN "good"
        ELSE IF IsSubstring(W_avoid, verdict_lower) THEN "avoid"
        ELSE "moderate"

\* NutritionScoringService._parse_confidence (thousandths)
_parse_confidence(confidence_str) ==
    LET f == ParseFloat(confidence_str)
    IN  IF f.ok THEN Max(0, Min(1000, f.val * 100)) ELSE 700

\* NutritionScoringService._parse_json_list.  The text is classified by what
\* json.loads makes of it: already a list, a JSON list, another JSON value,
\* or no JSON at all (then the comma-separated non-empty items).
_parse_json_list(json_str) ==
    IF json_str.form = "json_other" THEN <<>> ELSE json_str.items

\* NutritionScoringService._extract_reasoning_steps
_extract_reasoning_steps(result) ==
    <<"Analyzed nutritional content", "Compared against user goals",
      "Researched health guidelines", "Generated personalized verdict">>

\* The attributes score() reads from the agent's prediction
AgentFields == {"score", "verdict", "reasoning", "warnings", "highlights", "confidence"}

\* score(), lines 70-115: the agent's outcome turned into the ScoringResult.
\* agent_out.raised is NutritionScorerAgent.forward raising; a prediction
\* that lacks an attribute raises AttributeError inside the same try block.
AgentFails(agent_out) ==
    agent_out.raised \/ ~(AgentFields \subseteq DOMAIN agent_out.result)

\* AgentScoringResult with an empty citation list
AgentScoringResult_nocite(result, data_quality_score, citation_mgr) ==
    [score |-> _parse_score(result.score),
     verdict |-> _parse_verdict(result.verdict),
     warnings |-> _parse_json_list(result.warnings),
     highlights |-> _parse_json_list(result.highlights),
     citations |-> <<>>,
     confidence |-> _parse_confidence(result.confidence),
     data_quality_score |-> data_quality_score,
     reasoning_steps |-> _extract_reasoning_steps(result)]

AgentScoringResult(result, data_quality_score, citation_mgr) ==
    [score |-> _parse_score(result.score),
     verdict |-> _parse_verdict(result.verdict),
     warnings |-> _parse_json_list(result.warnings),
     highlights |-> _parse_json_list(result.highlights),
     citations |-> generate_citation_objects(citation_mgr),
     confidence |-> _parse_confidence(result.confidence),
     data_quality_score |-> data_quality_score,
     reasoning_steps |-> _extract_reasoning_steps(result)]

\* score(), lines 60-67: the primary source citation
PrimarySourceUrl(nutrition_data) ==
    <<"https://world.openfoodfacts.org/product/", nutrition_data.barcode>>

T_OpenFoodFacts == <<" ","-"," ","O","p","e","n","F","o","o","d","F","a","c","t","s">>
T_NutritionDataFor == <<"N","u","t","r","i","t","i","o","n"," ","d","a","t","a"," ","f","o","r"," ">>

\* the time of the add_source call of one score() call
ScoreInstant == 1

AddPrimarySource(nutrition_data, citation_mgr) ==
    IF /\ nutrition_data.data_source = "openfoodfacts"
       /\ nutrition_data.barcode # None /\ nutrition_data.barcode # ""
    THEN add_source(citation_mgr, PrimarySourceUrl(nutrition_data),
                    nutrition_data.product_name \o T_OpenFoodFacts,
                    T_NutritionDataFor \o nutrition_data.product_name,
                    "openfoodfacts", ScoreInstant)
    ELSE citation_mgr

\* score() letting a failing agent end in the defaults of the parsers
score_no_fallback(nutrition_data, user_profile, agent_out) ==
    LET citation_mgr == NewCitationManager
        allergen_warnings == _check_allergens(nutrition_data, user_profile)
        cl == clean(nutrition_data)
        mgr2 == AddPrimarySource(nutrition_data, citation_mgr)
    IN  IF Len(allergen_warnings) > 0
        THEN _create_allergen_fail_result(nutrition_data, allergen_warnings, citation_mgr)
        ELSE IF AgentFails(agent_out)
        THEN [_fallback_scoring(nutrition_data, user_profile, cl[2], mgr2)
                EXCEPT !.confidence = 700]
        ELSE AgentScoringResult(agent_out.result, cl[2], mgr2)

\* NutritionScoringService.score as one call (it contains no await)
score(nutrition_data, user_profile, agent_out) ==
    LET citation_mgr == NewCitationManager
        allergen_warnings == _check_allergens(nutrition_data, user_profile)
        cl == clean(nutrition_data)
        mgr2 == AddPrimarySource(nutrition_data, citation_mgr)
    IN  IF Len(allergen_warnings) > 0
        THEN _create_allergen_fail_result(nutrition_data, allergen_warnings, citation_mgr)
        ELSE IF AgentFails(agent_out)
        THEN _fallback_scoring(nutrition_data, user_profile, cl[2], mgr2)
        ELSE AgentScoringResult(agent_out.result, cl[2], mgr2)


(***************************************************************************)
(* Nutrition data aggregator (app/services/nutrition_api.py)               *)
(***************************************************************************)
NoneRec == [none |-> TRUE]

\* Python truthiness of an optional string: None and "" are falsy
TruthyText(x) == x # None /\ x # ""

UpperChar(c) ==
    CASE c = "p" -> "P"
      [] c = "m" -> "M"
      [] c = "o" -> "O"
      [] c = "n" -> "N"
      [] OTHER -> c

IsAlpha(c) == c \notin {" ", "-", ":", ","}

\* str.title()
Title(w) ==
    [i \in 1..Len(w) |->
        IF i = 1 \/ ~IsAlpha(w[i - 1]) THEN UpperChar(w[i]) ELSE LowerChar(w[i])]

\* str.replace("-", " ")
ReplaceDash(w) == [i \in 1..Len(w) |-> IF w[i] = "-" THEN " " ELSE w[i]]

\* index of the first occurrence of c in w, 0 when there is none
RECURSIVE IndexOf(_, _, _)
IndexOf(w, c, from) ==
    IF from > Len(w) THEN 0
    ELSE IF w[from] = c THEN from ELSE IndexOf(w, c, from + 1)

\* str.split(sep)
RECURSIVE Split(_, _)
Split(w, sep) ==
    LET k == IndexOf(w, sep, 1)
    IN  IF k = 0 THEN <<w>>
        ELSE <<SubSeq(w, 1, k - 1)>> \o Split(SubSeq(w, k + 1, Len(w)), sep)

\* str.strip() for blanks
RECURSIVE Strip(_)
Strip(w) ==
    IF Len(w) = 0 THEN w
    ELSE IF w[1] = " " THEN Strip(Tail(w))
    ELSE IF w[Len(w)] = " " THEN Strip(SubSeq(w, 1, Len(w) - 1))
    ELSE w

RECURSIVE NonEmpty(_)
NonEmpty(ws) ==
    IF Len(ws) = 0 THEN <<>>
    ELSE IF Len(Head(ws)) = 0 THEN NonEmpty(Tail(ws))
    ELSE <<Head(ws)>> \o NonEmpty(Tail(ws))

MaxIngredients == 20

\* OpenFoodFactsClient._parse_ingredients
_parse_ingredients(ingredients_text) ==
    IF Len(ingredients_text) = 0 THEN <<>>
    ELSE LET parts == Split(ingredients_text, ",")
             stripped == NonEmpty([i \in 1..Len(parts) |-> Strip(parts[i])])
         IN  SubSeq(stripped, 1, Min(Len(stripped), MaxIngredients))

\* OpenFoodFactsClient._parse_allergens
RECURSIVE _parse_allergens(_)
_parse_allergens(allergen_tags) ==
    IF Len(allergen_tags) = 0 THEN <<>>
    ELSE LET tag == Head(allergen_tags)
         IN  (IF IndexOf(tag, ":", 1) > 0
              THEN <<Title(ReplaceDash(Split(tag, ":")[2]))>> ELSE <<>>)
             \o _parse_allergens(Tail(allergen_tags))

\* get_nutrient inside _parse_product: "<key>_100g", else "<key>", else the
\* default 0.0; a value float() rejects gives the default as well
get_nutrient(nutriments, key) ==
    LET value == IF <<key, "_100g">> \in DOMAIN nutriments THEN nutriments[<<key, "_100g">>]
                 ELSE IF <<key, "">> \in DOMAIN nutriments THEN nutriments[<<key, "">>]
                 ELSE 0
    IN  IF value = BadNum \/ value = NoneNum THEN 0 ELSE value

\* OpenFoodFactsClient._parse_product.  Sodium is given by the provider in
\* thousandths of a gram, so g * 1000 is that same number of milligrams.
_parse_product(product, barcode) ==
    [product_name |-> product.product_name,
     barcode |-> barcode,
     calories |-> get_nutrient(product.nutriments, "energy-kcal"),
     protein_g |-> get_nutrient(product.nutriments, "proteins"),
     carbs_g |-> get_nutrient(product.nutriments, "carbohydrates"),
     fat_g |-> get_nutrient(product.nutriments, "fat"),
     saturated_fat_g |-> get_nutrient(product.nutriments, "saturated-fat"),
     sugar_g |-> get_nutrient(product.nutriments, "sugars"),
     sodium_mg |-> get_nutrient(product.nutriments, "sodium"),
     fiber_g |-> get_nutrient(product.nutriments, "fiber"),
     ingredients |-> _parse_ingredients(product.ingredients_text),
     allergens |-> _parse_allergens(product.allergens_tags),
     data_source |-> "openfoodfacts",
     confidence |-> 900]

\* an exception leaving a call, as a value
Raised == [raised |-> TRUE]

\* get_by_barcode without its except clause
get_by_barcode_raise(barcode, response) ==
    IF response.kind = "product" THEN _parse_product(response.product, barcode)
    ELSE IF response.kind \in {"exception", "unparsable"} THEN Raised
    ELSE NoneRec

\* OpenFoodFactsClient.get_by_barcode on the provider's response
get_by_barcode(barcode, response) ==
    IF response.kind = "product" THEN _parse_product(response.product, barcode)
    ELSE NoneRec

\* OpenFoodFactsClient.search_by_text on the provider's response
search_by_text(query, response) ==
    IF response.kind = "product"
    THEN _parse_product(response.product, response.product.code)
    ELSE NoneRec

\* NutritionDataAggregator.get_nutrition_data: the record returned
get_nutrition_data(barcode, product_name, barcode_response, search_response) ==
    LET byBarcode == IF TruthyText(barcode)
                     THEN get_by_barcode(barcode, barcode_response) ELSE NoneRec
    IN  IF byBarcode # NoneRec THEN byBarcode
        ELSE IF TruthyText(product_name)
        THEN search_by_text(product_name, search_response)
        ELSE NoneRec

\* NutritionDataAggregator.get_nutrition_data: the provider calls it makes
ProviderCalls(barcode, product_name, barcode_response) ==
    LET first == IF TruthyText(barcode) THEN <<"get_by_barcode">> ELSE <<>>
        resolved == TruthyText(barcode)
                    /\ get_by_barcode(barcode, barcode_response) # NoneRec
    IN  first \o (IF ~resolved /\ TruthyText(product_name)
                  THEN <<"search_by_text">> ELSE <<>>)

(***************************************************************************)
(* UI schema builder (app/services/ui_generator.py)                        *)
(***************************************************************************)
\* UISchemaBuilder._select_layout_and_theme
\* _select_layout_and_theme with the alert pair as the default
_select_layout_and_theme_alert(verdict) ==
    CASE verdict = "good" -> <<"encouraging", "green">>
      [] verdict = "moderate" -> <<"balanced", "yellow">>
      [] OTHER -> <<"alert", "red">>

\* UISchemaBuilder._select_layout_and_theme
_select_layout_and_theme(verdict) ==
    CASE verdict = "good" -> <<"encouraging", "green">>
      [] verdict = "moderate" -> <<"balanced", "yellow">>
      [] verdict = "avoid" -> <<"alert", "red">>
      [] OTHER -> <<"balanced", "yellow">>

\* generate() with the highlights placed before the warnings
generate_highlights_first(scoring) ==
    LET lt == _select_layout_and_theme(scoring.verdict)
        comps ==
            << [type |-> "verdict_badge",
                props |-> [verdict |-> scoring.verdict, theme |-> lt[2]]],
               [type |-> "score_display",
                props |-> [score |-> scoring.score, max_score |-> 100,
                           confidence |-> scoring.confidence,
                           data_quality |-> scoring.data_quality_score]] >>
            \o (IF Len(scoring.highlights) > 0
                THEN << [type |-> "insight_list",
                         props |-> [items |-> scoring.highlights, type |-> "highlight"]] >>
                ELSE <<>>)
            \o (IF Len(scoring.warnings) > 0
                THEN << [type |-> "allergen_alert",
                         props |-> [warnings |-> scoring.warnings,
                                    severity |-> IF scoring.verdict = "avoid"
                                                 THEN "high" ELSE "medium"]],
                        [type |-> "insight_list",
                         props |-> [items |-> scoring.warnings, type |-> "warning"]] >>
                ELSE <<>>)
            \o << [type |-> "reasoning_section",
                   props |-> [reasoning_steps |-> scoring.reasoning_steps,
                              expanded |-> FALSE]] >>
            \o (IF Len(scoring.citations) > 0
                THEN << [type |-> "citation_list",
                         props |-> [citations |-> scoring.citations]] >>
                ELSE <<>>)
    IN  [layout |-> lt[1], theme |-> lt[2],
         components |-> [i \in 1..Len(comps) |->
                           [type |-> comps[i].type, props |-> comps[i].props,
                            order |-> i - 1]]]

\* UISchemaBuilder.generate: `order` is incremented after every append, so a
\* component's order is its position in the list, counted from 0
generate(scoring) ==
    LET lt == _select_layout_and_theme(scoring.verdict)
        comps ==
            << [type |-> "verdict_badge",
                props |-> [verdict |-> scoring.verdict, theme |-> lt[2]]],
               [type |-> "score_display",
                props |-> [score |-> scoring.score, max_score |-> 100,
                           confidence |-> scoring.confidence,
                           data_quality |-> scoring.data_quality_score]] >>
            \o (IF Len(scoring.warnings) > 0
                THEN << [type |-> "allergen_alert",
                         props |-> [warnings |-> scoring.warnings,
                                    severity |-> IF scoring.verdict = "avoid"
                                                 THEN "high" ELSE "medium"]],
                        [type |-> "insight_list",
                         props |-> [items |-> scoring.warnings, type |-> "warning"]] >>
                ELSE <<>>)
            \o (IF Len(scoring.highlights) > 0
                THEN << [type |-> "insight_list",
                         props |-> [items |-> scoring.highlights, type |-> "highlight"]] >>
                ELSE <<>>)
            \o << [type |-> "reasoning_section",
                   props |-> [reasoning_steps |-> scoring.reasoning_steps,
                              expanded |-> FALSE]] >>
            \o (IF Len(scoring.citations) > 0
                THEN << [type |-> "citation_list",
                         props |-> [citations |-> scoring.citations]] >>
                ELSE <<>>)
    IN  [layout |-> lt[1], theme |-> lt[2],
         components |-> [i \in 1..Len(comps) |->
                           [type |-> comps[i].type, props |-> comps[i].props,
                            order |-> i - 1]]]

(***************************************************************************)
(* State                                                                   *)
(***************************************************************************)
VARIABLES
    \* one call of NutritionScoringService.score, step by step
    sc_pc,        \* position in score()
    sc_in,        \* its arguments and what the agent will answer
    sc_mgr,       \* the call's CitationManager
    sc_dq,        \* data_quality_score returned by the cleaner
    sc_steps,     \* the steps of score() executed so far, in order
    sc_result     \* the ScoringResult returned, NoResult before

scoreVars == <<sc_pc, sc_in, sc_mgr, sc_dq, sc_steps, sc_result>>

VARIABLES
    schemas,      \* the schemas module the server runs with
    scan_no,      \* number of start_scan invocations so far
    pc,           \* position of the current invocation in start_scan
    data,         \* the payload it was called with
    emitted,      \* events emitted to the client by this invocation, in order
    calls,        \* collaborators invoked by this invocation, in order
    locals        \* the handler's local variables

scanVars == <<schemas, scan_no, pc, data, emitted, calls, locals>>

VARIABLES
    \* one call of NutritionDataAggregator.get_nutrition_data, step by step
    ag_pc,        \* position in get_nutrition_data
    ag_in,        \* its arguments and what the provider will answer
    ag_calls,     \* the provider calls made so far, in order
    ag_result     \* what it returned, Pending before

aggVars == <<ag_pc, ag_in, ag_calls, ag_result>>

VARIABLES
    \* one CitationManager under a sequence of add_source and clear calls
    led,          \* the manager: sources, citation_map, next_id
    led_log       \* the calls made on it so far, with what they returned

ledVars == <<led, led_log>>

VARIABLES
    \* one call of UISchemaBuilder.generate
    ui_pc,        \* "start" before the call, "done" after it
    ui_in,        \* the ScoringResult it is given
    ui_schema     \* the UISchema it returned

uiVars == <<ui_pc, ui_in, ui_schema>>

VARIABLES
    \* the profile store and the requests in flight on it
    ps_files,     \* the profiles directory: name -> content of <name>.json
    ps_task       \* the coroutines working on the store, one per slot

psVars == <<ps_files, ps_task>>

VARIABLES
    \* one call of HealthModelingEngine.calculate_metrics, step by step
    hm_pc,        \* position in calculate_metrics
    hm_in,        \* its arguments
    hm            \* its local variables and what it returned

hmVars == <<hm_pc, hm_in, hm>>

VARIABLES
    \* the event loop of one server with scans running on it
    cc_pc,        \* position of each scan in start_scan
    cc_loc,       \* each scan's product, citation manager and citations
    cc_holder,    \* the scan that is inside a call that does not yield, 0 if none
    cc_ka         \* position of the keep-alive task

ccVars == <<cc_pc, cc_loc, cc_holder, cc_ka>>

VARIABLES
    \* the keep-alive of the web search and the server's lifespan
    ka,           \* the SearXNGKeepAlive object: _running and task
    ka_tasks,     \* the asyncio tasks that start() created
    ka_calls,     \* the calls of stop() and where each of them is
    ka_app,       \* position of the server in lifespan
    ka_obs        \* what was observed of the pings so far

kaVars == <<ka, ka_tasks, ka_calls, ka_app, ka_obs>>

vars == <<sc_pc, sc_in, sc_mgr, sc_dq, sc_steps, sc_result,
          schemas, scan_no, pc, data, emitted, calls, locals,
          ag_pc, ag_in, ag_calls, ag_result, led, led_log,
          ui_pc, ui_in, ui_schema, ps_files, ps_task, hm_pc, hm_in, hm,
          cc_pc, cc_loc, cc_holder, cc_ka,
          ka, ka_tasks, ka_calls, ka_app, ka_obs>>

\* what the steps of one component leave alone
nonScanVars == <<scoreVars, aggVars, ledVars, uiVars, psVars, hmVars, ccVars, kaVars>>
nonScoreVars == <<scanVars, aggVars, ledVars, uiVars, psVars, hmVars, ccVars, kaVars>>
nonAggVars == <<scoreVars, scanVars, ledVars, uiVars, psVars, hmVars, ccVars, kaVars>>
nonLedVars == <<scoreVars, scanVars, aggVars, uiVars, psVars, hmVars, ccVars, kaVars>>
nonUiVars == <<scoreVars, scanVars, aggVars, ledVars, psVars, hmVars, ccVars, kaVars>>
nonPsVars == <<scoreVars, scan_no, pc, data, emitted, calls, locals,
               aggVars, ledVars, uiVars, hmVars, ccVars, kaVars>>
nonHmVars == <<scoreVars, scan_no, pc, data, emitted, calls, locals,
               aggVars, ledVars, uiVars, psVars, ccVars, kaVars>>
nonCcVars == <<scoreVars, scanVars, aggVars, ledVars, uiVars, psVars, hmVars, kaVars>>
nonKaVars == <<scoreVars, scanVars, aggVars, ledVars, uiVars, psVars, hmVars, ccVars>>

Pending == [pending |-> TRUE]
NoAggInput == [barcode |-> None, product_name |-> None]
AggUnused ==
    /\ ag_pc = "unused"
    /\ ag_in = NoAggInput
    /\ ag_calls = <<>>
    /\ ag_result = Pending

LedUnused ==
    /\ led = [sources |-> <<>>, citation_map |-> [u \in {} |-> 0], next_id |-> 0]
    /\ led_log = <<>>

UiUnused ==
    /\ ui_pc = "unused"
    /\ ui_in = [verdict |-> None]
    /\ ui_schema = [none |-> TRUE]

PsUnused ==
    /\ ps_files = [n \in {} |-> None]
    /\ ps_task = <<>>

HmUnused ==
    /\ hm_pc = "unused"
    /\ hm_in = [none |-> TRUE]
    /\ hm = [none |-> TRUE]

CcUnused ==
    /\ cc_pc = <<>>
    /\ cc_loc = <<>>
    /\ cc_holder = 0
    /\ cc_ka = "unused"

NoObservation == [gap |-> -1, last |-> "None", late |-> FALSE]
KaUnused ==
    /\ ka = [none |-> TRUE]
    /\ ka_tasks = <<>>
    /\ ka_calls = <<>>
    /\ ka_app = "unused"
    /\ ka_obs = NoObservation

\* the components added after the scoring pipeline are not in use
RestUnused == PsUnused /\ HmUnused /\ CcUnused /\ KaUnused


NoResult == [score |-> -1, verdict |-> None, warnings |-> <<>>, highlights |-> <<>>,
             citations |-> <<>>, confidence |-> -1, data_quality_score |-> -1,
             reasoning_steps |-> <<>>]
NoManager == [sources |-> <<>>, citation_map |-> [u \in {} |-> 0], next_id |-> 0]
NoInput == [nutrition_data |-> [product_name |-> <<>>],
            user_profile |-> [name |-> None],
            agent_out |-> [raised |-> TRUE, tool_results |-> <<>>]]

(***************************************************************************)
(* Inputs of score()                                                       *)
(***************************************************************************)
SugarValues == {15, 16, 40}
SodiumValues == {600, 601}
ProteinValues == {10, 11}
FiberValues == {NoneNum, 5, 6}
FatValues == {0, 5}
ConfidenceValues == {500, 900}
IngredientLists == {<<>>, <<W_oats, W_PeanutOil>>}
AllergenTagLists == {<<>>, <<W_Peanut>>, <<W_Milk>>}
Barcodes == {None, "3017620422003"}
AllergyLists == {<<>>, <<W_peanut>>, <<W_nut>>, <<W_milk, W_peanut>>}

NutritionRecords ==
    [product_name : {W_oats}, calories : {250}, protein_g : ProteinValues,
     carbs_g : {30}, fat_g : FatValues, saturated_fat_g : {1},
     sugar_g : SugarValues, sodium_mg : SodiumValues, fiber_g : FiberValues,
     ingredients : IngredientLists, allergens : AllergenTagLists,
     barcode : Barcodes, data_source : {"openfoodfacts"},
     confidence : ConfidenceValues]

Profiles ==
    [name : {"asha"}, allergies : AllergyLists,
     daily_targets : [sugar_g : {30}, sodium_mg : {2000}]]

NoneText == <<None>>
T_8_5 == <<"8", ".", "5">>
T_12 == <<"1", "2">>
T_high == <<"h", "i", "g", "h">>
T_0_9 == <<"0", ".", "9">>

AgentPrediction(s, v, c, w) ==
    [score |-> s, verdict |-> v, reasoning |-> "text", confidence |-> c,
     warnings |-> w, highlights |-> [form |-> "json_list", items |-> <<"Low fat">>]]

\* _searxng_search (app/mcp/searxng_tools.py:111-154) on the answer of the
\* search service: the first max_results results as {title, url, snippet,
\* source_type}, the empty list on an exception or a status other than 200
SearxResponses ==
    { [kind |-> "exception"], [kind |-> "status"],
      [kind |-> "ok",
       results |-> << [title |-> "WHO sodium", url |-> "https://www.who.int/sodium",
                       content |-> [i \in 1..(SnippetLimit + 1) |-> "x"]],
                      [title |-> "No link", content |-> <<"s","a","l","t">>] >>] }

_searxng_search(response, max_results) ==
    IF response.kind = "ok"
    THEN LET rs == SubSeq(response.results, 1, Min(Len(response.results), max_results))
         IN  [i \in 1..Len(rs) |->
                [title |-> IF "title" \in DOMAIN rs[i] THEN rs[i].title ELSE "",
                 url |-> IF "url" \in DOMAIN rs[i] THEN rs[i].url ELSE "",
                 snippet |-> IF "content" \in DOMAIN rs[i]
                             THEN Truncate(rs[i].content) ELSE <<>>,
                 source_type |-> "searxng"]]
    ELSE <<>>

\* get_health_guidelines asks for two results (searxng_tools.py:94)
GuidelineResults == 2
ToolResultLists == { _searxng_search(r, GuidelineResults) : r \in SearxResponses }

\* What NutritionScorerAgent.forward can do: raise, or return a prediction
\* (well-formed, with unparsable texts, or lacking an attribute)
AgentAnswers ==
    { [raised |-> TRUE] }
    \cup { [raised |-> FALSE, result |-> r] : r \in
            { AgentPrediction(T_8_5, W_Good, T_0_9, [form |-> "json_other", items |-> <<>>]),
              AgentPrediction(T_12, W_AVOID, T_12, [form |-> "csv", items |-> <<"Salty">>]),
              AgentPrediction(T_high, W_ok, T_high, [form |-> "list", items |-> <<>>]),
              AgentPrediction(NoneText, W_goodOrAvoid, NoneText,
                              [form |-> "json_list", items |-> <<"Sweet">>]),
              [score |-> T_8_5, verdict |-> W_good] } }

\* ... after its tools returned tool_results to it
AgentOutcomes ==
    { a @@ [tool_results |-> t] : a \in AgentAnswers, t \in ToolResultLists }

(***************************************************************************)
(* score(), step by step (scoring.py:27-115)                               *)
(***************************************************************************)
InitScore ==
    /\ sc_pc = "start"
    /\ sc_in \in [nutrition_data : NutritionRecords, user_profile : Profiles,
                  agent_out : AgentOutcomes]
    /\ sc_mgr = NoManager
    /\ sc_dq = -1
    /\ sc_steps = <<>>
    /\ sc_result = NoResult
    /\ schemas = "schemas_old"
    /\ scan_no = 0
    /\ pc = "idle"
    /\ data = [isdict |-> FALSE, fields |-> [k \in {} |-> ""]]
    /\ emitted = <<>>
    /\ calls = <<>>
    /\ locals = [request |-> [none |-> TRUE]]
    /\ AggUnused
    /\ LedUnused
    /\ UiUnused
    /\ RestUnused

\* line 45
ScoreStart ==
    /\ sc_pc = "start"
    /\ sc_mgr' = NewCitationManager
    /\ sc_pc' = "gate"
    /\ UNCHANGED <<sc_in, sc_dq, sc_steps, sc_result>>
    /\ UNCHANGED nonScoreVars

\* ScoreCheckAllergens without the return of line 50
ScoreCheckAllergens_continue ==
    /\ sc_pc = "gate"
    /\ LET allergen_warnings == _check_allergens(sc_in.nutrition_data, sc_in.user_profile)
       IN  IF Len(allergen_warnings) > 0
           THEN sc_result' = _create_allergen_fail_result(
                                 sc_in.nutrition_data, allergen_warnings, sc_mgr)
           ELSE UNCHANGED sc_result
    /\ sc_pc' = "clean"
    /\ sc_steps' = Append(sc_steps, "_check_allergens")
    /\ UNCHANGED <<sc_in, sc_mgr, sc_dq>>
    /\ UNCHANGED nonScoreVars

\* lines 47-54
ScoreCheckAllergens ==
    /\ sc_pc = "gate"
    /\ LET allergen_warnings == _check_allergens(sc_in.nutrition_data, sc_in.user_profile)
       IN  IF Len(allergen_warnings) > 0
           THEN /\ sc_result' = _create_allergen_fail_result(
                                    sc_in.nutrition_data, allergen_warnings, sc_mgr)
                /\ sc_pc' = "done"
           ELSE /\ sc_pc' = "clean"
                /\ UNCHANGED sc_result
    /\ sc_steps' = Append(sc_steps, "_check_allergens")
    /\ UNCHANGED <<sc_in, sc_mgr, sc_dq>>
    /\ UNCHANGED nonScoreVars

\* lines 56-58
ScoreClean ==
    /\ sc_pc = "clean"
    /\ sc_dq' = clean(sc_in.nutrition_data)[2]
    /\ sc_steps' = Append(sc_steps, "clean")
    /\ sc_pc' = "cite"
    /\ UNCHANGED <<sc_in, sc_mgr, sc_result>>
    /\ UNCHANGED nonScoreVars

\* lines 60-67
ScoreAddPrimarySource ==
    /\ sc_pc = "cite"
    /\ sc_mgr' = AddPrimarySource(sc_in.nutrition_data, sc_mgr)
    /\ sc_steps' = IF sc_mgr' # sc_mgr THEN Append(sc_steps, "add_source") ELSE sc_steps
    /\ sc_pc' = "agent"
    /\ UNCHANGED <<sc_in, sc_dq, sc_result>>
    /\ UNCHANGED nonScoreVars

\* lines 69-105
ScoreRunAgent ==
    /\ sc_pc = "agent"
    /\ sc_steps' = Append(sc_steps, "agent.forward")
    /\ IF AgentFails(sc_in.agent_out)
       THEN /\ sc_pc' = "except"
            /\ UNCHANGED sc_result
       ELSE /\ sc_result' = AgentScoringResult(sc_in.agent_out.result, sc_dq, sc_mgr)
            /\ sc_pc' = "done"
    /\ UNCHANGED <<sc_in, sc_mgr, sc_dq>>
    /\ UNCHANGED nonScoreVars

\* lines 107-115
ScoreFallback ==
    /\ sc_pc = "except"
    /\ sc_result' = _fallback_scoring(sc_in.nutrition_data, sc_in.user_profile, sc_dq, sc_mgr)
    /\ sc_steps' = Append(sc_steps, "_fallback_scoring")
    /\ sc_pc' = "done"
    /\ UNCHANGED <<sc_in, sc_mgr, sc_dq>>
    /\ UNCHANGED nonScoreVars

NextScore ==
    \/ ScoreStart
    \/ ScoreCheckAllergens
    \/ ScoreClean
    \/ ScoreAddPrimarySource
    \/ ScoreRunAgent
    \/ ScoreFallback


(***************************************************************************)
(* Event models (app/models/schemas.py)                                    *)
(*                                                                         *)
(* scan.py imports StartScanEvent, ScanProgressEvent, ScanCompleteEvent,   *)
(* ScanErrorEvent and ScanResult from app.models.schemas.  The schemas.py  *)
(* of the repository is the file that calls itself schemas_v2.py in its    *)
(* header (schemas.py:1-11): it defines ScanProgressEvent and              *)
(* ScanErrorEvent, in the shape scan_simple.py uses, and none of the other *)
(* three.  The module it replaced, schemas_old.py in that header, is the   *)
(* one scan.py was written against.  `schemas` says which of the two the   *)
(* server runs with.                                                       *)
(***************************************************************************)
SchemaModules == {"schemas_v2", "schemas_old"}

V2Stages == {"image_processing", "nutrition_retrieval", "profile_loading",
             "scoring", "assessment_generation"}

\* ScanProgressEvent(**kw) validates (schemas.py:387-401); progress is in
\* hundredths, so le=1 is 100
V2ScanProgressEventValid(kw) ==
    /\ {"scan_id", "stage", "stage_number", "message", "progress"} \subseteq DOMAIN kw
    /\ kw.stage \in V2Stages
    /\ kw.stage_number >= 1 /\ kw.stage_number <= 5
    /\ kw.progress >= 0 /\ kw.progress <= 100

\* ScanErrorEvent(**kw) validates (schemas.py:404-412)
V2ScanErrorEventValid(kw) ==
    {"scan_id", "error", "message", "stage", "recoverable"} \subseteq DOMAIN kw

\* the event classes of schemas_old, which take what scan.py passes
OldScanProgressEventValid(kw) ==
    {"stage", "progress", "message"} \subseteq DOMAIN kw

OldScanErrorEventValid(kw) ==
    {"stage", "error", "error_code"} \subseteq DOMAIN kw

ScanProgressEventValid(schema_module, kw) ==
    IF schema_module = "schemas_v2" THEN V2ScanProgressEventValid(kw)
    ELSE OldScanProgressEventValid(kw)

ScanErrorEventValid(schema_module, kw) ==
    IF schema_module = "schemas_v2" THEN V2ScanErrorEventValid(kw)
    ELSE OldScanErrorEventValid(kw)

\* StartScanEvent(**data): the request carries the user and the image
StartScanEventValid(fields) == {"user", "image_data"} \subseteq DOMAIN fields


(***************************************************************************)
(* Scan orchestrator (app/api/scan.py)                                     *)
(***************************************************************************)
\* number of start_scan invocations explored
MaxScans == 2

NoLocals == [request |-> NoneRec, image_result |-> NoneRec, nutrition_data |-> NoneRec,
             user_profile |-> NoneRec, agent_out |-> NoneRec,
             scoring_result |-> NoneRec, ui_schema |-> NoneRec]

NoFields == [k \in {} |-> ""]

\* what a client can send: something that is no dict, a dict that lacks a
\* field, a request whose image data is not base64, a proper request
DataPayloads ==
    { [isdict |-> FALSE, fields |-> NoFields],
      [isdict |-> TRUE, fields |-> NoFields],
      [isdict |-> TRUE, fields |-> [user |-> "asha"]],
      [isdict |-> TRUE, fields |-> [user |-> "asha", image_data |-> "not-base64"]],
      [isdict |-> TRUE, fields |-> [user |-> "asha", image_data |-> "aGVsbG8="]] }

\* base64.b64decode raises
B64Invalid(image_data) == image_data = "not-base64"

T_ingredients == <<"o","a","t","s",","," ","p","e","a","n","u","t"," ","o","i","l">>
T_en_peanut == <<"e","n",":","p","e","a","n","u","t">>

\* products as the provider returns them
Products ==
    { [product_name |-> W_oats, code |-> "3017620422003",
       nutriments |-> (<<"energy-kcal", "_100g">> :> 250) @@ (<<"proteins", "_100g">> :> 11)
                      @@ (<<"carbohydrates", "">> :> 30) @@ (<<"fat", "_100g">> :> 5)
                      @@ (<<"sugars", "_100g">> :> 15) @@ (<<"sodium", "_100g">> :> 600)
                      @@ (<<"fiber", "_100g">> :> 6),
       ingredients_text |-> <<>>, allergens_tags |-> <<>>],
      [product_name |-> W_PeanutOil, code |-> None,
       nutriments |-> (<<"energy-kcal", "_100g">> :> 500) @@ (<<"proteins", "">> :> 10)
                      @@ (<<"carbohydrates", "_100g">> :> 30) @@ (<<"fat", "_100g">> :> 40)
                      @@ (<<"sugars", "_100g">> :> 40) @@ (<<"sodium", "_100g">> :> 601)
                      @@ (<<"fiber", "_100g">> :> BadNum),
       ingredients_text |-> T_ingredients, allergens_tags |-> <<T_en_peanut>>] }

\* what a provider call can end in: an exception or timeout, a status other
\* than 200, a 200 without a product, a 200 with a product
ProviderResponses ==
    { [kind |-> "exception"], [kind |-> "status"], [kind |-> "unparsable"],
      [kind |-> "empty"] }
    \cup { [kind |-> "product", product |-> p] : p \in Products }

\* ImageProcessor.process (image_processing.py:24-75): a barcode, else the
\* OCR text (possibly empty), else the empty result of the except branch
ImageOutcomes == {"barcode", "ocr_text", "ocr_empty", "exception"}

process(outcome) ==
    CASE outcome = "barcode" ->
            [barcode |-> "3017620422003", ocr_text |-> None,
             confidence |-> 950, method_used |-> "barcode"]
      [] outcome = "ocr_text" ->
            [barcode |-> None, ocr_text |-> "Rolled oats",
             confidence |-> 700, method_used |-> "ocr"]
      [] outcome = "ocr_empty" ->
            [barcode |-> None, ocr_text |-> "",
             confidence |-> 0, method_used |-> "ocr"]
      [] OTHER ->
            [barcode |-> None, ocr_text |-> None,
             confidence |-> 0, method_used |-> "ocr"]

\* the profiles profile_store.load can return
StoredProfiles ==
    { pr \in Profiles : pr.allergies \in {<<>>, <<W_peanut>>} }

Init ==
    /\ schemas \in SchemaModules
    /\ scan_no = 0
    /\ pc = "idle"
    /\ data = [isdict |-> FALSE, fields |-> NoFields]
    /\ emitted = <<>>
    /\ calls = <<>>
    /\ locals = NoLocals
    /\ sc_pc = "unused"
    /\ sc_in = NoInput
    /\ sc_mgr = NoManager
    /\ sc_dq = -1
    /\ sc_steps = <<>>
    /\ sc_result = NoResult
    /\ AggUnused
    /\ LedUnused
    /\ UiUnused
    /\ RestUnused

\* sio.emit(name, event.model_dump(), room=sid)
Emit(name, kw) == emitted' = Append(emitted, [name |-> name, kw |-> kw])

\* _emit_error (scan.py:191-204): the keyword arguments it gives ScanErrorEvent
_emit_error(stage, error, error_code, retry_suggestion) ==
    [stage |-> stage, error |-> error, error_code |-> error_code,
     retry_suggestion |-> retry_suggestion]

\* FailStage, had the error been followed by a raise instead of the return
FailStage_raise(kw) ==
    IF ScanErrorEventValid(schemas, kw)
    THEN Emit("scan_error", kw) /\ pc' = "except"
    ELSE pc' = "except" /\ UNCHANGED emitted

\* `await _emit_error(...); return` inside the try block: when the event
\* cannot be built the ValidationError goes to the handler of line 180
FailStage(kw) ==
    IF ScanErrorEventValid(schemas, kw)
    THEN Emit("scan_error", kw) /\ pc' = "done"
    ELSE pc' = "except" /\ UNCHANGED emitted

\* `await sio.emit("scan_progress", ScanProgressEvent(...).model_dump(), room=sid)`
EmitProgress(stage, progress, message, next) ==
    /\ LET kw == [stage |-> stage, progress |-> progress, message |-> message]
       IN  IF ScanProgressEventValid(schemas, kw)
           THEN Emit("scan_progress", kw) /\ pc' = next
           ELSE pc' = "except" /\ UNCHANGED emitted
    /\ UNCHANGED <<schemas, scan_no, data, calls, locals>>
    /\ UNCHANGED nonScanVars

\* lines 53-54: data.get('user') is evaluated before the try block
StartScan(d) ==
    /\ pc \in {"idle", "done", "escaped"}
    /\ scan_no < MaxScans
    /\ scan_no' = scan_no + 1
    /\ data' = d
    /\ emitted' = <<>>
    /\ calls' = <<>>
    /\ locals' = NoLocals
    /\ pc' = IF d.isdict THEN "parse" ELSE "escaped"
    /\ UNCHANGED schemas
    /\ UNCHANGED nonScanVars

\* line 58
ParseRequest ==
    /\ pc = "parse"
    /\ IF StartScanEventValid(data.fields)
       THEN /\ locals' = [locals EXCEPT !.request = data.fields]
            /\ pc' = "s1_progress"
       ELSE /\ pc' = "except"
            /\ UNCHANGED locals
    /\ UNCHANGED <<schemas, scan_no, data, emitted, calls>>
    /\ UNCHANGED nonScanVars

\* lines 63-67
Stage1Progress ==
    /\ pc = "s1_progress"
    /\ EmitProgress("detecting_barcode", 1000, "Analyzing image...", "s1_decode")

\* lines 69-74
Stage1Decode ==
    /\ pc = "s1_decode"
    /\ calls' = Append(calls, "base64.b64decode")
    /\ IF B64Invalid(locals.request.image_data)
       THEN FailStage(_emit_error("detecting_barcode", "Invalid image data",
                                  "IMAGE_DECODE_ERROR", None))
       ELSE pc' = "s1_process" /\ UNCHANGED emitted
    /\ UNCHANGED <<schemas, scan_no, data, locals>>
    /\ UNCHANGED nonScanVars

\* lines 76-88
Stage1Process(outcome) ==
    /\ pc = "s1_process"
    /\ calls' = Append(calls, "image_processor.process")
    /\ LET image_result == process(outcome)
       IN  /\ locals' = [locals EXCEPT !.image_result = image_result]
           /\ IF ~TruthyText(image_result.barcode) /\ ~TruthyText(image_result.ocr_text)
              THEN FailStage(_emit_error("detecting_barcode",
                                         "Could not detect barcode or extract text",
                                         "IMAGE_PROCESSING_FAILED",
                                         "Try better lighting or a clearer image"))
              ELSE pc' = "s2_progress" /\ UNCHANGED emitted
    /\ UNCHANGED <<schemas, scan_no, data>>
    /\ UNCHANGED nonScanVars

\* lines 93-97
Stage2Progress ==
    /\ pc = "s2_progress"
    /\ EmitProgress("fetching_nutrition", 3000,
                    "Looking up nutrition data...", "s2_lookup")

\* lines 99-114
Stage2Lookup(barcode_response, search_response) ==
    /\ pc = "s2_lookup"
    /\ LET barcode == locals.image_result.barcode
           product_name == locals.image_result.ocr_text
           nutrition_data == get_nutrition_data(barcode, product_name,
                                                barcode_response, search_response)
       IN  /\ calls' = calls \o <<"nutrition_aggregator.get_nutrition_data">>
                             \o ProviderCalls(barcode, product_name, barcode_response)
           /\ locals' = [locals EXCEPT !.nutrition_data = nutrition_data]
           /\ IF nutrition_data = NoneRec
              THEN FailStage(_emit_error("fetching_nutrition",
                                         "Product not found in database",
                                         "PRODUCT_NOT_FOUND",
                                         "Try scanning the barcode again or manual entry"))
              ELSE pc' = "s3_progress" /\ UNCHANGED emitted
    /\ UNCHANGED <<schemas, scan_no, data>>
    /\ UNCHANGED nonScanVars

\* Stage3Progress with a progress value below the one of stage 2
Stage3Progress_low ==
    /\ pc = "s3_progress"
    /\ EmitProgress("loading_profile", 2500, "Loading your profile...", "s3_load")

\* lines 119-123
Stage3Progress ==
    /\ pc = "s3_progress"
    /\ EmitProgress("loading_profile", 5000, "Loading your profile...", "s3_load")

\* lines 125-135
Stage3Load(loaded) ==
    /\ pc = "s3_load"
    /\ calls' = Append(calls, "profile_store.load")
    /\ locals' = [locals EXCEPT !.user_profile = loaded]
    /\ IF loaded = NoneRec
       THEN FailStage(_emit_error("loading_profile", "User profile not found",
                                  "PROFILE_NOT_FOUND", "Please complete onboarding first"))
       ELSE pc' = "s4_progress" /\ UNCHANGED emitted
    /\ UNCHANGED <<schemas, scan_no, data>>
    /\ UNCHANGED nonScanVars

\* lines 140-144
Stage4Progress ==
    /\ pc = "s4_progress"
    /\ EmitProgress("analyzing", 6000,
                    "Analyzing nutrition against your goals...", "s4_score")

\* lines 146-148
Stage4Score(agent_out) ==
    /\ pc = "s4_score"
    /\ calls' = Append(calls, "scoring_service.score")
    /\ locals' = [locals EXCEPT
                    !.agent_out = agent_out,
                    !.scoring_result = score(locals.nutrition_data,
                                             locals.user_profile, agent_out)]
    /\ pc' = "s5_progress"
    /\ UNCHANGED <<schemas, scan_no, data, emitted>>
    /\ UNCHANGED nonScanVars

\* lines 153-157
Stage5Progress ==
    /\ pc = "s5_progress"
    /\ EmitProgress("generating_ui", 8500,
                    "Preparing your personalized verdict...", "s5_generate")

\* Stage5Generate building the UI from an empty scoring result
Stage5Generate_stale ==
    /\ pc = "s5_generate"
    /\ calls' = Append(calls, "ui_schema_builder.generate")
    /\ locals' = [locals EXCEPT !.ui_schema = generate(NoResult)]
    /\ pc' = "complete"
    /\ UNCHANGED <<schemas, scan_no, data, emitted>>
    /\ UNCHANGED nonScanVars

\* line 159
Stage5Generate ==
    /\ pc = "s5_generate"
    /\ calls' = Append(calls, "ui_schema_builder.generate")
    /\ locals' = [locals EXCEPT !.ui_schema = generate(locals.scoring_result)]
    /\ pc' = "complete"
    /\ UNCHANGED <<schemas, scan_no, data, emitted>>
    /\ UNCHANGED nonScanVars

\* lines 164-178
Complete ==
    /\ pc = "complete"
    /\ LET scan_result == [scan_id |-> scan_no,
                           user_name |-> locals.request.user,
                           image_processing |-> locals.image_result,
                           nutrition_data |-> locals.nutrition_data,
                           scoring |-> locals.scoring_result,
                           ui_schema |-> locals.ui_schema]
       IN  Emit("scan_complete", [result |-> scan_result])
    /\ pc' = "done"
    /\ UNCHANGED <<schemas, scan_no, data, calls, locals>>
    /\ UNCHANGED nonScanVars

\* lines 180-188: a ValidationError of this _emit_error leaves the handler
HandleException ==
    /\ pc = "except"
    /\ LET kw == _emit_error("unknown", "An unexpected error occurred",
                             "INTERNAL_ERROR", "Please try again")
       IN  IF ScanErrorEventValid(schemas, kw)
           THEN Emit("scan_error", kw) /\ pc' = "done"
           ELSE pc' = "escaped" /\ UNCHANGED emitted
    /\ UNCHANGED <<schemas, scan_no, data, calls, locals>>
    /\ UNCHANGED nonScanVars

Next ==
    \/ \E d \in DataPayloads : StartScan(d)
    \/ ParseRequest
    \/ Stage1Progress
    \/ Stage1Decode
    \/ \E outcome \in ImageOutcomes : Stage1Process(outcome)
    \/ Stage2Progress
    \/ \E br \in ProviderResponses, sr \in ProviderResponses : Stage2Lookup(br, sr)
    \/ Stage3Progress
    \/ \E loaded \in StoredProfiles \cup {NoneRec} : Stage3Load(loaded)
    \/ Stage4Progress
    \/ \E agent_out \in AgentOutcomes : Stage4Score(agent_out)
    \/ Stage5Progress
    \/ Stage5Generate
    \/ Complete
    \/ HandleException

Spec == Init /\ [][Next]_vars


\* one call of score() on its own
SpecScore == InitScore /\ [][NextScore]_vars

(***************************************************************************)
(* NutritionDataAggregator.get_nutrition_data, step by step                *)
(* (app/services/nutrition_api.py:163-199)                                 *)
(***************************************************************************)
BarcodeArgs == {None, "", "3017620422003"}
ProductNameArgs == {None, "", "Rolled oats"}

InitAgg ==
    /\ ag_pc = "start"
    /\ ag_in \in [barcode : BarcodeArgs, product_name : ProductNameArgs,
                  barcode_response : ProviderResponses,
                  search_response : ProviderResponses]
    /\ ag_calls = <<>>
    /\ ag_result = Pending
    /\ sc_pc = "unused"
    /\ sc_in = NoInput
    /\ sc_mgr = NoManager
    /\ sc_dq = -1
    /\ sc_steps = <<>>
    /\ sc_result = NoResult
    /\ schemas = "schemas_old"
    /\ scan_no = 0
    /\ pc = "idle"
    /\ data = [isdict |-> FALSE, fields |-> NoFields]
    /\ emitted = <<>>
    /\ calls = <<>>
    /\ locals = NoLocals
    /\ LedUnused
    /\ UiUnused
    /\ RestUnused

\* AggBarcodeLookup going on to the text search after a record was found
AggBarcodeLookup_continue ==
    /\ ag_pc = "start"
    /\ TruthyText(ag_in.barcode)
    /\ ag_calls' = Append(ag_calls, "get_by_barcode")
    /\ ag_pc' = "search"
    /\ UNCHANGED <<ag_in, ag_result>>
    /\ UNCHANGED nonAggVars

\* lines 184-188: `if barcode:` taken
AggBarcodeLookup ==
    /\ ag_pc = "start"
    /\ TruthyText(ag_in.barcode)
    /\ ag_calls' = Append(ag_calls, "get_by_barcode")
    /\ LET found == get_by_barcode(ag_in.barcode, ag_in.barcode_response)
       IN  IF found = Raised
           THEN ag_pc' = "raised" /\ UNCHANGED ag_result
           ELSE IF found # NoneRec
           THEN ag_pc' = "done" /\ ag_result' = found
           ELSE ag_pc' = "search" /\ UNCHANGED ag_result
    /\ UNCHANGED ag_in
    /\ UNCHANGED nonAggVars

\* line 184: `if barcode:` not taken
AggSkipBarcode ==
    /\ ag_pc = "start"
    /\ ~TruthyText(ag_in.barcode)
    /\ ag_pc' = "search"
    /\ UNCHANGED <<ag_in, ag_calls, ag_result>>
    /\ UNCHANGED nonAggVars

\* AggTextSearch without the test of line 191
AggTextSearch_unguarded ==
    /\ ag_pc = "search"
    /\ ag_calls' = Append(ag_calls, "search_by_text")
    /\ ag_pc' = "done"
    /\ ag_result' = search_by_text(ag_in.product_name, ag_in.search_response)
    /\ UNCHANGED ag_in
    /\ UNCHANGED nonAggVars

\* lines 191-195 and, when the search finds nothing, 198-199
AggTextSearch ==
    /\ ag_pc = "search"
    /\ TruthyText(ag_in.product_name)
    /\ ag_calls' = Append(ag_calls, "search_by_text")
    /\ LET found == search_by_text(ag_in.product_name, ag_in.search_response)
       IN  IF found = Raised
           THEN ag_pc' = "raised" /\ UNCHANGED ag_result
           ELSE ag_pc' = "done" /\ ag_result' = found
    /\ UNCHANGED ag_in
    /\ UNCHANGED nonAggVars

\* line 191 not taken, lines 198-199
AggNotFound ==
    /\ ag_pc = "search"
    /\ ~TruthyText(ag_in.product_name)
    /\ ag_pc' = "done"
    /\ ag_result' = NoneRec
    /\ UNCHANGED <<ag_in, ag_calls>>
    /\ UNCHANGED nonAggVars

NextAgg ==
    \/ AggBarcodeLookup
    \/ AggSkipBarcode
    \/ AggTextSearch
    \/ AggNotFound

SpecAgg == InitAgg /\ [][NextAgg]_vars

(***************************************************************************)
(* One CitationManager under add_source and clear calls                    *)
(* (app/services/citation_manager.py)                                      *)
(***************************************************************************)
MaxLedgerCalls == 4

U_off == "https://world.openfoodfacts.org/product/3017620422003"
U_who == "https://www.who.int/sodium"
U_blog == "https://example.org/blog"

T_salt == <<"s","a","l","t">>
LongSnippet == [i \in 1..(SnippetLimit + 1) |-> "x"]

SourceArgs ==
    { [url |-> U_off, title |-> "Oats", snippet |-> T_salt, source_type |-> "openfoodfacts"],
      [url |-> U_off, title |-> "Oats again", snippet |-> LongSnippet, source_type |-> "searxng"],
      [url |-> U_who, title |-> "WHO", snippet |-> LongSnippet, source_type |-> "who"],
      [url |-> U_who, title |-> "WHO mirror", snippet |-> T_salt, source_type |-> "searxng"],
      [url |-> U_blog, title |-> "Blog", snippet |-> T_salt, source_type |-> "blog"] }

NoArgs == [url |-> None, title |-> None, snippet |-> <<>>, source_type |-> None]

InitLedger ==
    /\ led = NewCitationManager
    /\ led_log = <<>>
    /\ sc_pc = "unused"
    /\ sc_in = NoInput
    /\ sc_mgr = NoManager
    /\ sc_dq = -1
    /\ sc_steps = <<>>
    /\ sc_result = NoResult
    /\ schemas = "schemas_old"
    /\ scan_no = 0
    /\ pc = "idle"
    /\ data = [isdict |-> FALSE, fields |-> NoFields]
    /\ emitted = <<>>
    /\ calls = <<>>
    /\ locals = NoLocals
    /\ AggUnused
    /\ UiUnused
    /\ RestUnused

\* citation_mgr.add_source(url, title, snippet, source_type) at the next instant
LedgerAddSource(a) ==
    /\ Len(led_log) < MaxLedgerCalls
    /\ LET now == Len(led_log) + 1
       IN  /\ led' = add_source(led, a.url, a.title, a.snippet, a.source_type, now)
           /\ led_log' = Append(led_log, [op |-> "add_source", args |-> a,
                                          ret |-> add_source_id(led, a.url), at |-> now])
    /\ UNCHANGED nonLedVars

\* citation_mgr.clear()
LedgerClear ==
    /\ Len(led_log) < MaxLedgerCalls
    /\ led' = clear(led)
    /\ led_log' = Append(led_log, [op |-> "clear", args |-> NoArgs, ret |-> 0,
                                   at |-> Len(led_log) + 1])
    /\ UNCHANGED nonLedVars

NextLedger ==
    \/ \E a \in SourceArgs : LedgerAddSource(a)
    \/ LedgerClear

SpecLedger == InitLedger /\ [][NextLedger]_vars

(***************************************************************************)
(* One call of UISchemaBuilder.generate (app/services/ui_generator.py)     *)
(***************************************************************************)
VerdictValues == {"good", "moderate", "avoid", "unknown", "GOOD", ""}
WarningLists == {<<>>, <<"High sodium">>, <<"Contains peanut", "High sugar content">>}
HighlightLists == {<<>>, <<"Low sugar">>}
CitationLists ==
    {<<>>,
     generate_citation_objects(
        add_source(NewCitationManager, U_who, "WHO", T_salt, "who", ScoreInstant))}
ScoreValues == {0, 85}

ScoringResults ==
    { [score |-> sv, verdict |-> v, warnings |-> w, highlights |-> h, citations |-> c,
       confidence |-> 700, data_quality_score |-> 1000,
       reasoning_steps |-> <<"Analyzed nutritional content">>] :
         sv \in ScoreValues, v \in VerdictValues, w \in WarningLists,
         h \in HighlightLists, c \in CitationLists }

InitUi ==
    /\ ui_pc = "start"
    /\ ui_in \in ScoringResults
    /\ ui_schema = [none |-> TRUE]
    /\ sc_pc = "unused"
    /\ sc_in = NoInput
    /\ sc_mgr = NoManager
    /\ sc_dq = -1
    /\ sc_steps = <<>>
    /\ sc_result = NoResult
    /\ schemas = "schemas_old"
    /\ scan_no = 0
    /\ pc = "idle"
    /\ data = [isdict |-> FALSE, fields |-> NoFields]
    /\ emitted = <<>>
    /\ calls = <<>>
    /\ locals = NoLocals
    /\ AggUnused
    /\ LedUnused
    /\ RestUnused

\* ui_schema_builder.generate(scoring)
UiGenerate ==
    /\ ui_pc = "start"
    /\ ui_schema' = generate(ui_in)
    /\ ui_pc' = "done"
    /\ UNCHANGED ui_in
    /\ UNCHANGED nonUiVars

NextUi == UiGenerate

SpecUi == InitUi /\ [][NextUi]_vars

(***************************************************************************)
(* Profile store (app/core/profile_store.py) behind the profile endpoints  *)
(* (app/api/auth.py) and the profile stage of a scan (scan.py:125-135).    *)
(* profile_store.py reads age, gender, height_cm, weight_kg, goals,        *)
(* allergies as attributes of the request and of the profile: that is the  *)
(* shape of schemas_old.  The classes of schemas.py (schemas_v2) nest them *)
(* in demographics, goals and food_preferences.  Timestamps are left out.  *)
(* Amounts are whole grams, milligrams and kilocalories.                   *)
(***************************************************************************)
N_asha == <<"a","s","h","a">>
N_ravi == <<"r","a","v","i">>
ProfileNames == {N_asha, N_ravi}

\* a name that differs from N_asha in the case of one letter, and the names a
\* request can carry
N_Asha == <<"A","s","h","a">>
RequestNames == ProfileNames \cup {N_Asha}

G_weight_loss == <<"w","e","i","g","h","t","_","l","o","s","s">>
G_lose_weight == <<"l","o","s","e","_","w","e","i","g","h","t">>
G_muscle == <<"m","u","s","c","l","e">>
G_gain == <<"g","a","i","n">>
G_diabetes == <<"d","i","a","b","e","t","e","s">>
G_blood_sugar == <<"b","l","o","o","d","_","s","u","g","a","r">>
G_heart == <<"h","e","a","r","t">>
G_cardiovascular == <<"c","a","r","d","i","o","v","a","s","c","u","l","a","r">>
G_Muscle_Gain == <<"M","u","s","c","l","e","_","G","a","i","n">>
G_heart_health == <<"h","e","a","r","t","_","h","e","a","l","t","h">>

\* _get_profile_path (lines 25-29): the name without the characters that are
\* neither alphanumeric nor "-" nor "_", in lower case
_get_profile_path(name) ==
    Lower(SelectSeq(name, LAMBDA c : IsAlpha(c) \/ IsDigit(c) \/ c \in {"-", "_"}))

\* DailyTargetCalculator._calculate_bmr (lines 213-229), in quarters of a kcal
_calculate_bmr(age, gender, height_cm, weight_kg) ==
    LET bmr == 40 * weight_kg + 25 * height_cm - 20 * age
    IN  IF gender # None /\ gender \in {"male", "m"} THEN bmr + 20 ELSE bmr - 644

\* one round of the loop of lines 180-200
ApplyGoal(t, goal, weight_kg) ==
    LET goal_lower == Lower(goal)
    IN  IF IsSubstring(G_weight_loss, goal_lower) \/ IsSubstring(G_lose_weight, goal_lower)
        THEN [t EXCEPT !.calories = @ - 500, !.sugar_g = Min(@, 25),
                       !.sodium_mg = Min(@, 1500)]
        ELSE IF IsSubstring(G_muscle, goal_lower) \/ IsSubstring(G_gain, goal_lower)
        THEN [t EXCEPT !.calories = @ + 200,
                       !.protein_g = Max(@, IF TruthyNum(weight_kg)
                                            THEN weight_kg * 2 ELSE 120)]
        ELSE IF IsSubstring(G_diabetes, goal_lower) \/ IsSubstring(G_blood_sugar, goal_lower)
        THEN [t EXCEPT !.sugar_g = Min(@, 25), !.carbs_g = Min(@, 180),
                       !.fiber_g = Max(@, 35)]
        ELSE IF IsSubstring(G_heart, goal_lower) \/ IsSubstring(G_cardiovascular, goal_lower)
        THEN [t EXCEPT !.sodium_mg = Min(@, 1500), !.fat_g = Min(@, 50),
                       !.fiber_g = Max(@, 35)]
        ELSE t

RECURSIVE ApplyGoals(_, _, _)
ApplyGoals(t, goals, weight_kg) ==
    IF goals = <<>> THEN t
    ELSE ApplyGoals(ApplyGoal(t, Head(goals), weight_kg), Tail(goals), weight_kg)

\* DailyTargetCalculator.calculate (lines 151-210); int(bmr * 1.55) of line
\* 177 is the quotient of bmr-in-quarters * 155 by 400, the values being positive
calculate(age, gender, height_cm, weight_kg, goals) ==
    LET measured == TruthyNum(age) /\ gender # None /\ gender # ""
                    /\ TruthyNum(height_cm) /\ TruthyNum(weight_kg)
        defaults == [calories |-> IF measured
                                  THEN (_calculate_bmr(age, gender, height_cm, weight_kg)
                                        * 155) \div 400
                                  ELSE 2000,
                     protein_g |-> 75, carbs_g |-> 250, fat_g |-> 65, sugar_g |-> 30,
                     sodium_mg |-> 2300, fiber_g |-> 28]
    IN  ApplyGoals(defaults, goals, weight_kg)

\* content of a profile file: none, one cut short by open(path, "w") whose
\* write has not reached the disk, or the JSON of a profile
Absent == [absent |-> TRUE]
Truncated(prev) == [truncated |-> TRUE, prev |-> prev]
IsProfile(content) == "name" \in DOMAIN content
FileExists(content) == content # Absent
HoldsProfile(content) ==
    IsProfile(content) \/ ("prev" \in DOMAIN content /\ IsProfile(content.prev))

TriggerFields == {"age", "gender", "height_cm", "weight_kg", "goals"}
FlatFields == TriggerFields \cup {"name", "allergies", "daily_targets"}
NestedFields == {"name", "demographics", "lifestyle_habits", "health_metrics", "goals",
                 "food_preferences", "daily_targets"}

\* EnhancedUserProfile(**data) validates: schemas.py:115-128 for schemas_v2,
\* the fields profile_store.py:79-92 gives it for schemas_old
EnhancedUserProfileValid(schema_module, d) ==
    IF schema_module = "schemas_v2"
    THEN NestedFields \subseteq DOMAIN d /\ "primary_goal" \in DOMAIN d.goals
    ELSE FlatFields \subseteq DOMAIN d

\* lines 44-59 of load: json.loads and the constructor, None on any exception
load_parse(schema_module, content) ==
    IF IsProfile(content) /\ EnhancedUserProfileValid(schema_module, content)
    THEN content ELSE NoneRec

\* `value is not None` of line 131
IsNoneValue(key, value) ==
    IF key \in {"age", "height_cm", "weight_kg"} THEN value = NoneNum
    ELSE IF key = "gender" THEN value = None
    ELSE FALSE

\* lines 130-142 of update: setattr for the keys the profile has, then the
\* recalculation when a trigger key is among the keys
apply_updates(profile, updates) ==
    LET set == [k \in DOMAIN profile |->
                  IF k \in DOMAIN updates /\ ~IsNoneValue(k, updates[k]) THEN updates[k]
                  ELSE profile[k]]
    IN  IF \E k \in TriggerFields : k \in DOMAIN updates
        THEN [set EXCEPT !.daily_targets =
                 calculate(set.age, set.gender, set.height_cm, set.weight_kg, set.goals)]
        ELSE set

\* lines 69-92 of create
new_profile(od) ==
    [name |-> od.name, age |-> od.age, gender |-> od.gender, height_cm |-> od.height_cm,
     weight_kg |-> od.weight_kg, goals |-> od.goals, allergies |-> od.allergies,
     daily_targets |-> calculate(od.age, od.gender, od.height_cm, od.weight_kg, od.goals)]

\* OnboardingRequest bodies, flat (schemas_old) and nested (schemas.py:461-468)
OldOnboardingRequests ==
    { [name |-> N_asha, age |-> 30, gender |-> "male", height_cm |-> 180,
       weight_kg |-> 80, goals |-> <<G_Muscle_Gain>>, allergies |-> <<>>],
      [name |-> N_ravi, age |-> NoneNum, gender |-> "female", height_cm |-> 165,
       weight_kg |-> 60, goals |-> <<G_heart_health, G_weight_loss>>,
       allergies |-> <<W_peanut>>],
      [name |-> N_Asha, age |-> 30, gender |-> "female", height_cm |-> 165,
       weight_kg |-> 60, goals |-> <<G_weight_loss>>, allergies |-> <<W_milk>>] }

V2OnboardingRequests ==
    { [name |-> n,
       demographics |-> [age |-> 30, gender |-> "male", height_cm |-> 180, weight_kg |-> 80],
       lifestyle_habits |-> [sleep_hours |-> 7], goals |-> [primary_goal |-> "gain_muscle"],
       food_preferences |-> [allergens |-> <<>>]] : n \in RequestNames }

\* request.model_dump(exclude_unset=True) of a ProfileUpdateRequest, flat
\* (schemas_old) and nested (schemas.py:435-442)
OldUpdateDicts ==
    { [age |-> 31], [goals |-> <<G_weight_loss>>], [allergies |-> <<W_milk>>],
      [weight_kg |-> NoneNum] }

V2UpdateDicts ==
    { [demographics |-> [age |-> 31, gender |-> "male", height_cm |-> 180,
                         weight_kg |-> 80]],
      [goals |-> [primary_goal |-> "lose_weight"]],
      [food_preferences |-> [allergens |-> <<W_milk>>]] }

OnboardingRequests(schema_module) ==
    IF schema_module = "schemas_v2" THEN V2OnboardingRequests ELSE OldOnboardingRequests
UpdateDicts(schema_module) ==
    IF schema_module = "schemas_v2" THEN V2UpdateDicts ELSE OldUpdateDicts

\* handlers that can be in flight at once: in slot 1 a request of the profile
\* endpoints, in slot 2 a reader (a scan at its profile stage or a fetch), so
\* that a file has one writer at a time
Slots == {1, 2}
WriterSlots == {1}

IdleTask == [op |-> "idle", name |-> <<>>, arg |-> NoneRec, pc |-> "idle",
             existed |-> FALSE, profile |-> NoneRec, resp |-> None]

ScoreUnused ==
    /\ sc_pc = "unused"
    /\ sc_in = NoInput
    /\ sc_mgr = NoManager
    /\ sc_dq = -1
    /\ sc_steps = <<>>
    /\ sc_result = NoResult

ScanUnused ==
    /\ scan_no = 0
    /\ pc = "idle"
    /\ data = [isdict |-> FALSE, fields |-> NoFields]
    /\ emitted = <<>>
    /\ calls = <<>>
    /\ locals = NoLocals

\* the directory is empty or holds the profile an earlier run of the server
\* wrote when schemas_old was in place
InitPs ==
    /\ schemas \in SchemaModules
    /\ ps_files \in { [n \in {_get_profile_path(m) : m \in ProfileNames} |-> Absent],
                      [n \in {_get_profile_path(m) : m \in ProfileNames} |->
                          IF n = N_asha
                          THEN new_profile(CHOOSE od \in OldOnboardingRequests :
                                              od.name = N_asha)
                          ELSE Absent] }
    /\ ps_task = [t \in Slots |-> IdleTask]
    /\ ScoreUnused
    /\ ScanUnused
    /\ AggUnused
    /\ LedUnused
    /\ UiUnused
    /\ HmUnused
    /\ CcUnused
    /\ KaUnused

SlotFree(t) == ps_task[t].pc \in {"idle", "done"}

\* a create or update on that file has not returned yet
WriterOn(path) ==
    \E t \in Slots : /\ ps_task[t].op \in {"create", "update"}
                     /\ ps_task[t].pc \notin {"idle", "done"}
                     /\ _get_profile_path(ps_task[t].name) = path

\* POST /onboard (auth.py:49-76) into create (lines 61-92) up to the first
\* await of save: ValueError becomes 409, any other exception 500
PsCreate(t, od) ==
    /\ SlotFree(t)
    /\ ~WriterOn(_get_profile_path(od.name))
    /\ LET content == ps_files[_get_profile_path(od.name)]
           task == [IdleTask EXCEPT !.op = "create", !.name = od.name, !.arg = od,
                                    !.existed = FileExists(content)]
       IN  ps_task' = [ps_task EXCEPT ![t] =
              IF FileExists(content)
              THEN [task EXCEPT !.pc = "done", !.resp = "409"]
              ELSE IF ~(TriggerFields \subseteq DOMAIN od)
              THEN [task EXCEPT !.pc = "done", !.resp = "500"]
              ELSE [task EXCEPT !.pc = "save_open", !.profile = new_profile(od)]]
    /\ UNCHANGED <<ps_files, schemas>>
    /\ UNCHANGED nonPsVars

\* save, line 115: aiofiles.open(path, "w") empties the file
PsSaveOpen(t) ==
    /\ ps_task[t].pc = "save_open"
    /\ ps_files' = [ps_files EXCEPT ![_get_profile_path(ps_task[t].profile.name)] =
                       Truncated(@)]
    /\ ps_task' = [ps_task EXCEPT ![t].pc = "save_write"]
    /\ UNCHANGED schemas
    /\ UNCHANGED nonPsVars

\* save, lines 116-117: the JSON is on disk when the file is closed; the
\* endpoint answers with the profile
PsSaveWrite(t) ==
    /\ ps_task[t].pc = "save_write"
    /\ ps_files' = [ps_files EXCEPT ![_get_profile_path(ps_task[t].profile.name)] =
                       ps_task[t].profile]
    /\ ps_task' = [ps_task EXCEPT ![t].pc = "done", ![t].resp = "200"]
    /\ UNCHANGED schemas
    /\ UNCHANGED nonPsVars

\* what the caller of load makes of None: 404 in get_profile (auth.py:86-90)
\* and, through the ValueError of line 127, in update_profile (auth.py:110-114),
\* PROFILE_NOT_FOUND in a scan (scan.py:127-135)
NotFound(op) == IF op = "scan_load" THEN "PROFILE_NOT_FOUND" ELSE "404"

\* GET /profile, PATCH /profile and stage 3 of a scan enter load: lines 38-42
PsLoadStart(t, op, name, updates) ==
    /\ SlotFree(t)
    /\ op = "update" => ~WriterOn(_get_profile_path(name))
    /\ LET content == ps_files[_get_profile_path(name)]
           task == [IdleTask EXCEPT !.op = op, !.name = name, !.arg = updates,
                                    !.existed = HoldsProfile(content)]
       IN  ps_task' = [ps_task EXCEPT ![t] =
              IF ~FileExists(content)
              THEN [task EXCEPT !.pc = "done", !.resp = NotFound(op)]
              ELSE [task EXCEPT !.pc = "load_read"]]
    /\ UNCHANGED <<ps_files, schemas>>
    /\ UNCHANGED nonPsVars

\* load, lines 45-59, and what the caller does up to its next await
PsLoadRead(t) ==
    /\ ps_task[t].pc = "load_read"
    /\ LET task == ps_task[t]
           loaded == load_parse(schemas, ps_files[_get_profile_path(task.name)])
       IN  ps_task' = [ps_task EXCEPT ![t] =
              IF loaded = NoneRec
              THEN [task EXCEPT !.pc = "done", !.resp = NotFound(task.op)]
              ELSE IF task.op = "update"
              THEN [task EXCEPT !.pc = "save_open",
                                !.profile = apply_updates(loaded, task.arg)]
              ELSE [task EXCEPT !.pc = "done", !.profile = loaded,
                                !.resp = IF task.op = "scan_load" THEN "loaded" ELSE "200"]]
    /\ UNCHANGED <<ps_files, schemas>>
    /\ UNCHANGED nonPsVars

NextPs ==
    \/ \E t \in WriterSlots : \E od \in OnboardingRequests(schemas) : PsCreate(t, od)
    \/ \E t \in WriterSlots : \E name \in ProfileNames : \E updates \in UpdateDicts(schemas) :
          PsLoadStart(t, "update", name, updates)
    \/ \E t \in Slots : \E name \in RequestNames : \E op \in {"fetch", "scan_load"} :
          PsLoadStart(t, op, name, NoneRec)
    \/ \E t \in Slots : PsSaveOpen(t)
    \/ \E t \in Slots : PsSaveWrite(t)
    \/ \E t \in Slots : PsLoadRead(t)

SpecPs == InitPs /\ [][NextPs]_vars

(***************************************************************************)
(* Health Modeling Engine (app/services/health_modeling.py), one call of   *)
(* calculate_metrics.  BMI is in hundredths, BMR in quarters of a kcal,    *)
(* activity multipliers in thousandths, TDEE and target calories in        *)
(* 1/4000 kcal (quarters times thousandths), rounded results in tenths.    *)
(* HealthMetrics and HealthGoals of schemas.py (schemas_v2) have neither   *)
(* target_calories nor fitness_goal; under schemas_old the classes take    *)
(* what health_modeling.py passes and reads.                               *)
(***************************************************************************)
\* round(x, k) where n / d is x in units of 10 ** -k: the nearest integer, ties
\* to even; on floats the last digit can differ by one where the product is not
\* representable
RoundHalfEven(n, d) ==
    LET q == n \div d
        r == n % d
    IN  IF 2 * r < d THEN q
        ELSE IF 2 * r > d THEN q + 1
        ELSE IF q % 2 = 0 THEN q ELSE q + 1

BMI_CATEGORIES == <<[category |-> "underweight", low |-> 0, high |-> 1850],
                    [category |-> "normal", low |-> 1850, high |-> 2500],
                    [category |-> "overweight", low |-> 2500, high |-> 3000],
                    [category |-> "obese", low |-> 3000, high |-> -1]>>

WORK_STYLE_MULTIPLIER ==
    [desk_job |-> 1200, light_activity |-> 1375, physical_job |-> 1550]
EXERCISE_BONUS ==
    ("rarely" :> 0) @@ ("1-2_times_week" :> 50) @@ ("3-4_times_week" :> 100)
    @@ ("5_times_week" :> 150) @@ ("daily" :> 200)
COMMUTE_BONUS == [car |-> 0, public_transport |-> 20, bike |-> 80, walk |-> 50]

\* _calculate_bmi (lines 120-123): the hundredths of weight / height_m ** 2
_calculate_bmi(height_cm, weight_kg) == (weight_kg * 1000000) \div (height_cm * height_cm)

\* _get_bmi_category with the bounds taken as low < bmi <= high
_get_bmi_category_upper(bmi) ==
    LET hit == { i \in 1..Len(BMI_CATEGORIES) :
                   /\ BMI_CATEGORIES[i].low < bmi
                   /\ (BMI_CATEGORIES[i].high = -1 \/ bmi <= BMI_CATEGORIES[i].high) }
    IN  IF hit = {} THEN "obese"
        ELSE BMI_CATEGORIES[CHOOSE i \in hit : \A j \in hit : i <= j].category

\* _get_bmi_category (lines 125-130): the first category with low <= bmi < high,
\* the high of the last one being infinity
_get_bmi_category(bmi) ==
    LET hit == { i \in 1..Len(BMI_CATEGORIES) :
                   /\ BMI_CATEGORIES[i].low <= bmi
                   /\ (BMI_CATEGORIES[i].high = -1 \/ bmi < BMI_CATEGORIES[i].high) }
    IN  IF hit = {} THEN "obese"
        ELSE BMI_CATEGORIES[CHOOSE i \in hit : \A j \in hit : i <= j].category

\* _calculate_bmr_mifflin with the female offset for everyone
_calculate_bmr_mifflin_female(weight_kg, height_cm, age, gender) ==
    40 * weight_kg + 25 * height_cm - 20 * age - 644

\* _calculate_bmr_mifflin (lines 132-152), in quarters of a kcal
_calculate_bmr_mifflin(weight_kg, height_cm, age, gender) ==
    LET base == 40 * weight_kg + 25 * height_cm - 20 * age
    IN  IF gender = "male" THEN base + 20
        ELSE IF gender = "female" THEN base - 644
        ELSE base - 312

\* _calculate_activity_multiplier (lines 154-172)
_calculate_activity_multiplier(lifestyle) ==
    LET penalties == (IF lifestyle.sleep_hours < 6 THEN 50 ELSE 0)
                     + (IF lifestyle.smoking = "yes" THEN 30 ELSE 0)
        total == WORK_STYLE_MULTIPLIER[lifestyle.work_style]
                 + EXERCISE_BONUS[lifestyle.exercise_frequency]
                 + COMMUTE_BONUS[lifestyle.commute_type] - penalties
    IN  Max(1200, Min(2500, total))

\* _adjust_calories_for_goal (lines 174-195): comparing None with a float
\* raises TypeError
_adjust_calories_for_goal(tdee, target_weight, current_weight) ==
    IF target_weight = NoneNum THEN Raised
    ELSE IF target_weight < current_weight THEN [value |-> tdee - 500 * 4000]
    ELSE IF target_weight > current_weight THEN [value |-> tdee + 300 * 4000]
    ELSE [value |-> tdee]

\* _assess_health_risks (lines 197-219)
_assess_health_risks(bmi_category, lifestyle) ==
    (IF bmi_category = "underweight" THEN <<"underweight_malnutrition_risk">>
     ELSE IF bmi_category = "overweight" THEN <<"overweight_cardiovascular_risk">>
     ELSE IF bmi_category = "obese" THEN <<"obesity_multiple_disease_risk">>
     ELSE <<>>)
    \o (IF lifestyle.sleep_hours < 6 THEN <<"insufficient_sleep">> ELSE <<>>)
    \o (IF lifestyle.smoking = "yes" THEN <<"smoking_health_hazard">> ELSE <<>>)
    \o (IF lifestyle.alcohol = "heavy" THEN <<"excessive_alcohol_consumption">> ELSE <<>>)
    \o (IF lifestyle.exercise_frequency = "rarely" THEN <<"sedentary_lifestyle">> ELSE <<>>)

\* HealthMetrics(**kw) validates: schemas.py:57-69 requires daily_energy_target
HealthMetricsValid(schema_module, kw) ==
    IF schema_module = "schemas_v2"
    THEN {"bmi", "bmi_category", "bmr", "tdee", "daily_energy_target"} \subseteq DOMAIN kw
    ELSE {"bmi", "bmi_category", "bmr", "tdee", "target_calories"} \subseteq DOMAIN kw

\* DailyTargets(**kw) validates (schemas.py:103-112), amounts in tenths
DailyTargetsValid(kw) ==
    /\ kw.calories >= 12000 /\ kw.calories <= 100000
    /\ kw.protein_g >= 0 /\ kw.protein_g <= 5000
    /\ kw.carbs_g >= 0 /\ kw.carbs_g <= 10000
    /\ kw.fat_g >= 0 /\ kw.fat_g <= 3000
    /\ kw.fiber_g >= 0 /\ kw.fiber_g <= 1000
    /\ kw.sugar_g >= 0 /\ kw.sugar_g <= 2000
    /\ kw.sodium_mg >= 0 /\ kw.sodium_mg <= 50000

\* _calculate_daily_targets (lines 221-265): the keyword arguments it gives
\* DailyTargets, Raised when goals has no fitness_goal
_calculate_daily_targets(target_calories, goals, gender, lifestyle) ==
    IF "fitness_goal" \notin DOMAIN goals THEN Raised
    ELSE [calories |-> RoundHalfEven(target_calories, 400),
          protein_g |-> RoundHalfEven(target_calories * (IF goals.fitness_goal = "muscle_gain"
                                                         THEN 30 ELSE 20), 160000),
          carbs_g |-> RoundHalfEven(target_calories * (IF goals.fitness_goal = "weight_loss"
                                                       THEN 40 ELSE 50), 160000),
          fat_g |-> RoundHalfEven(target_calories * 25, 360000),
          fiber_g |-> IF gender = "male" THEN 300 ELSE 250,
          sugar_g |-> RoundHalfEven(target_calories * 10, 160000),
          sodium_mg |-> 20000]

\* valid Demographics, LifestyleHabits and HealthGoals (schemas.py:22-83)
DemographicsValues ==
    [age : {30, 80}, gender : {"male", "female", "other"},
     height_cm : {150, 180, 200}, weight_kg : {40, 74, 80, 100, 120}]

LifestyleValues ==
    { [sleep_hours |-> 7, work_style |-> "desk_job", exercise_frequency |-> "rarely",
       commute_type |-> "car", smoking |-> "no", alcohol |-> "none", stress_level |-> "low"],
      [sleep_hours |-> 5, work_style |-> "physical_job", exercise_frequency |-> "daily",
       commute_type |-> "bike", smoking |-> "yes", alcohol |-> "heavy",
       stress_level |-> "high"] }

HealthGoalsValues(schema_module) ==
    IF schema_module = "schemas_v2"
    THEN { [primary_goal |-> "gain_muscle", target_weight_kg |-> 90],
           [primary_goal |-> "lose_weight", target_weight_kg |-> 70],
           [primary_goal |-> "maintain_weight", target_weight_kg |-> NoneNum] }
    ELSE { [fitness_goal |-> "muscle_gain", target_weight_kg |-> 90],
           [fitness_goal |-> "weight_loss", target_weight_kg |-> 70],
           [fitness_goal |-> "maintenance", target_weight_kg |-> NoneNum] }

NoMetrics == [bmi |-> -1, bmi_category |-> None, bmr |-> -1, tdee |-> -1,
              target_calories |-> -1, health_metrics |-> NoneRec,
              daily_targets |-> NoneRec]

InitHm ==
    /\ schemas \in SchemaModules
    /\ hm_pc = "start"
    /\ hm_in \in { [demographics |-> d, lifestyle |-> l, goals |-> g] :
                     d \in DemographicsValues, l \in LifestyleValues,
                     g \in HealthGoalsValues(schemas) }
    /\ hm = NoMetrics
    /\ ScoreUnused
    /\ ScanUnused
    /\ AggUnused
    /\ LedUnused
    /\ UiUnused
    /\ PsUnused
    /\ CcUnused
    /\ KaUnused

\* lines 77-91: BMI, its category, BMR, TDEE
HmMeasure ==
    /\ hm_pc = "start"
    /\ LET d == hm_in.demographics
           bmi == _calculate_bmi(d.height_cm, d.weight_kg)
           bmr == _calculate_bmr_mifflin(d.weight_kg, d.height_cm, d.age, d.gender)
       IN  hm' = [hm EXCEPT !.bmi = bmi, !.bmi_category = _get_bmi_category(bmi),
                            !.bmr = bmr,
                            !.tdee = bmr * _calculate_activity_multiplier(hm_in.lifestyle)]
    /\ hm_pc' = "adjust"
    /\ UNCHANGED <<hm_in, schemas>>
    /\ UNCHANGED nonHmVars

\* line 94
HmAdjust ==
    /\ hm_pc = "adjust"
    /\ LET adjusted == _adjust_calories_for_goal(hm.tdee, hm_in.goals.target_weight_kg,
                                                 hm_in.demographics.weight_kg)
       IN  IF adjusted = Raised
           THEN hm_pc' = "raised" /\ UNCHANGED hm
           ELSE hm_pc' = "metrics" /\ hm' = [hm EXCEPT !.target_calories = adjusted.value]
    /\ UNCHANGED <<hm_in, schemas>>
    /\ UNCHANGED nonHmVars

\* lines 97-107: the health risks and the HealthMetrics object
HmBuildMetrics ==
    /\ hm_pc = "metrics"
    /\ LET kw == [bmi |-> RoundHalfEven(hm_in.demographics.weight_kg * 1000000,
                                        hm_in.demographics.height_cm
                                        * hm_in.demographics.height_cm),
                  bmi_category |-> hm.bmi_category,
                  bmr |-> RoundHalfEven(10 * hm.bmr, 4), tdee |-> RoundHalfEven(hm.tdee, 400),
                  target_calories |-> RoundHalfEven(hm.target_calories, 400),
                  health_risks |-> _assess_health_risks(hm.bmi_category, hm_in.lifestyle)]
       IN  IF HealthMetricsValid(schemas, kw)
           THEN hm_pc' = "targets" /\ hm' = [hm EXCEPT !.health_metrics = kw]
           ELSE hm_pc' = "raised" /\ UNCHANGED hm
    /\ UNCHANGED <<hm_in, schemas>>
    /\ UNCHANGED nonHmVars

\* lines 110-118: the DailyTargets object and the return
HmTargets ==
    /\ hm_pc = "targets"
    /\ LET kw == _calculate_daily_targets(hm.target_calories, hm_in.goals,
                                          hm_in.demographics.gender, hm_in.lifestyle)
       IN  IF kw # Raised /\ DailyTargetsValid(kw)
           THEN hm_pc' = "done" /\ hm' = [hm EXCEPT !.daily_targets = kw]
           ELSE hm_pc' = "raised" /\ UNCHANGED hm
    /\ UNCHANGED <<hm_in, schemas>>
    /\ UNCHANGED nonHmVars

NextHm == HmMeasure \/ HmAdjust \/ HmBuildMetrics \/ HmTargets

SpecHm == InitHm /\ [][NextHm]_vars

(***************************************************************************)
(* The simplified scan handler (app/api/scan_simple.py), the one main.py   *)
(* imports (main.py:183-185).  It uses the classes of schemas.py as they   *)
(* are; progress is in hundredths and scan_id is the number of the scan.   *)
(***************************************************************************)
\* ScanRequest(**data) validates (schemas.py:453-458)
ScanRequestValid(fields) ==
    /\ {"user_name", "image_base64", "source"} \subseteq DOMAIN fields
    /\ fields.source \in {"camera", "upload"}

\* CitationSource(**kw) validates (schemas.py:270-280)
CitationSourceValid(kw) ==
    /\ {"citation_number", "source_type", "title", "authority_score"} \subseteq DOMAIN kw
    /\ kw.source_type \in {"openfoodfacts", "searxng_web", "health_guideline",
                           "user_profile"}

\* DetailedAssessment(**kw) validates (schemas.py:282-329)
DetailedAssessmentValid(kw) ==
    {"scan_id", "product_name", "final_score", "verdict", "verdict_emoji", "base_score",
     "context_adjustment", "time_multiplier", "final_calculation", "moderation_message",
     "timing_recommendation", "reasoning_steps", "confidence"} \subseteq DOMAIN kw

\* the keyword arguments of the first mock CitationSource (lines 153-158)
MockCitationSource ==
    [url |-> "https://world.openfoodfacts.org/product/0028400047388",
     title |-> "Lay's Classic Potato Chips - OpenFoodFacts",
     snippet |-> "Nutrition facts and ingredients for Lay's Classic",
     source_type |-> "database"]

\* the keyword arguments of the mock DetailedAssessment (lines 127-195)
MockAssessment(scan_id) ==
    [scan_id |-> scan_id, timestamp |-> "utcnow",
     product_name |-> "Lay's Classic Potato Chips", final_score |-> 65,
     verdict |-> "moderate", verdict_emoji |-> "yellow", base_score |-> 55,
     context_adjustment |-> "weight loss penalty", time_multiplier |-> 95,
     highlights |-> 3, warnings |-> 4, allergen_alerts |-> 0,
     moderation_message |-> "Okay in moderation",
     timing_recommendation |-> "Best consumed during high-activity periods",
     reasoning_steps |-> 6, sources |-> 3, alternative_products |-> 4,
     nutrition_snapshot |-> 8]

\* _emit_error of scan_simple.py (lines 214-230): the keyword arguments it
\* gives ScanErrorEvent
simple_emit_error(scan_id, stage, error_code, message) ==
    [scan_id |-> scan_id, error |-> error_code, message |-> message, stage |-> stage,
     retry_suggestions |-> <<"Try again with a clearer image">>, recoverable |-> TRUE]

SimplePayloads ==
    { [isdict |-> FALSE, fields |-> NoFields],
      [isdict |-> TRUE, fields |-> [user_name |-> "asha"]],
      [isdict |-> TRUE, fields |-> [user_name |-> "asha", image_base64 |-> "aGVsbG8=",
                                    source |-> "gallery"]] }
    \cup { [isdict |-> TRUE, fields |-> [user_name |-> u, image_base64 |-> i, source |-> s]] :
             u \in {"asha", "ravi"}, i \in {"aGVsbG8=", "not-base64"},
             s \in {"camera", "upload"} }

SimpleStages ==
    <<[stage |-> "image_processing", message |-> "Analyzing image...", progress |-> 20],
      [stage |-> "nutrition_retrieval", message |-> "Looking up nutrition data...",
       progress |-> 40],
      [stage |-> "profile_loading", message |-> "Loading your profile...", progress |-> 60],
      [stage |-> "scoring", message |-> "Analyzing nutrition against your goals...",
       progress |-> 80],
      [stage |-> "assessment_generation",
       message |-> "Preparing your personalized verdict...", progress |-> 95]>>

InitSimple ==
    /\ schemas = "schemas_v2"
    /\ ScanUnused
    /\ ScoreUnused
    /\ AggUnused
    /\ LedUnused
    /\ UiUnused
    /\ RestUnused

\* lines 55-56: data.get('user_name') is evaluated before the try block
SimpleStartScan(d) ==
    /\ pc \in {"idle", "done", "escaped"}
    /\ scan_no < MaxScans
    /\ scan_no' = scan_no + 1
    /\ data' = d
    /\ emitted' = <<>>
    /\ calls' = <<>>
    /\ locals' = NoLocals
    /\ pc' = IF d.isdict THEN "validate" ELSE "escaped"
    /\ UNCHANGED schemas
    /\ UNCHANGED nonScanVars

\* lines 59-69
SimpleValidate ==
    /\ pc = "validate"
    /\ IF ScanRequestValid(data.fields)
       THEN /\ locals' = [locals EXCEPT !.request = data.fields]
            /\ pc' = "stage"
            /\ UNCHANGED emitted
       ELSE /\ LET kw == simple_emit_error(scan_no, "image_processing", "INVALID_REQUEST",
                                           "Invalid scan request format")
               IN  IF V2ScanErrorEventValid(kw)
                   THEN Emit("scan_error", kw) /\ pc' = "done"
                   ELSE pc' = "except" /\ UNCHANGED emitted
            /\ UNCHANGED locals
    /\ UNCHANGED <<schemas, scan_no, data, calls>>
    /\ UNCHANGED nonScanVars

\* lines 71-125: the progress event of stage n, the one after the n - 1 events
\* emitted so far
SimpleProgress(n) ==
    /\ pc = "stage"
    /\ n = Len(emitted) + 1
    /\ LET kw == [scan_id |-> scan_no, stage |-> SimpleStages[n].stage,
                  stage_number |-> n, total_stages |-> 5,
                  message |-> SimpleStages[n].message,
                  progress |-> SimpleStages[n].progress]
       IN  IF V2ScanProgressEventValid(kw)
           THEN Emit("scan_progress", kw)
                /\ pc' = IF n = Len(SimpleStages) THEN "assess" ELSE "stage"
           ELSE pc' = "except" /\ UNCHANGED emitted
    /\ UNCHANGED <<schemas, scan_no, data, calls, locals>>
    /\ UNCHANGED nonScanVars

\* lines 127-201: the sources are built first, then the assessment
SimpleAssess ==
    /\ pc = "assess"
    /\ IF CitationSourceValid(MockCitationSource)
          /\ DetailedAssessmentValid(MockAssessment(scan_no))
       THEN Emit("scan_complete", [scan_id |-> scan_no,
                                   detailed_assessment |-> MockAssessment(scan_no)])
            /\ pc' = "done"
       ELSE pc' = "except" /\ UNCHANGED emitted
    /\ UNCHANGED <<schemas, scan_no, data, calls, locals>>
    /\ UNCHANGED nonScanVars

\* lines 205-211
SimpleHandleException ==
    /\ pc = "except"
    /\ LET kw == simple_emit_error(scan_no, "unknown", "INTERNAL_ERROR",
                                   "An unexpected error occurred")
       IN  IF V2ScanErrorEventValid(kw)
           THEN Emit("scan_error", kw) /\ pc' = "done"
           ELSE pc' = "escaped" /\ UNCHANGED emitted
    /\ UNCHANGED <<schemas, scan_no, data, calls, locals>>
    /\ UNCHANGED nonScanVars

NextSimple ==
    \/ \E d \in SimplePayloads : SimpleStartScan(d)
    \/ SimpleValidate
    \/ \E n \in 1..Len(SimpleStages) : SimpleProgress(n)
    \/ SimpleAssess
    \/ SimpleHandleException

SpecSimple == InitSimple /\ [][NextSimple]_vars

(***************************************************************************)
(* Scans on one event loop (app/api/scan.py, app/main.py).                 *)
(*                                                                         *)
(* Each start_scan call is a task of the server's event loop, and so is    *)
(* the keep-alive loop (app/core/searxng_keepalive.py).  A task runs until *)
(* it awaits something that suspends it.  A call that never suspends keeps *)
(* the loop for as long as it lasts: image_processor.process awaits only   *)
(* _extract_text_ocr, whose body is synchronous (image_processing.py:      *)
(* 24-75, 163-199), and score() contains no await, its agent call being    *)
(* the synchronous forward (scoring.py:27-105, dspy_modules.py:108-136).   *)
(* The provider lookup and the profile load await network and file I/O.    *)
(* cc_holder is the scan that is inside such a call.  The progress events  *)
(* between the stages are those of Spec and are left out here.             *)
(***************************************************************************)
Scans == 1..MaxScans

P_jam == <<"j","a","m">>
P_tea == <<"t","e","a">>

CcRecords ==
    { [product_name |-> P_jam, barcode |-> "3017620422003", data_source |-> "openfoodfacts"],
      [product_name |-> P_tea, barcode |-> "8901030865278", data_source |-> "openfoodfacts"],
      [product_name |-> P_tea, barcode |-> None, data_source |-> "ocr"] }

NoScanLocals == [nutrition_data |-> NoneRec, mgr |-> NoManager, citations |-> <<>>]

InitCc ==
    /\ schemas = "schemas_old"
    /\ cc_pc = [s \in Scans |-> "start"]
    /\ cc_loc = [s \in Scans |-> NoScanLocals]
    /\ cc_holder = 0
    /\ cc_ka = "ready"
    /\ ScanUnused
    /\ ScoreUnused
    /\ AggUnused
    /\ LedUnused
    /\ UiUnused
    /\ PsUnused
    /\ HmUnused
    /\ KaUnused

\* score() working on a manager that outlives the call: the one a scan before
\* it worked on, if there is one
score_citation_mgr_shared(loc, s) ==
    IF \E o \in Scans \ {s} : loc[o].mgr # NoManager
    THEN loc[CHOOSE o \in Scans \ {s} : loc[o].mgr # NoManager].mgr
    ELSE NewCitationManager

\* scoring.py:45: the citation manager score() of scan s works on is a local
\* of the call, although scoring_service is one object (lines 273-274)
score_citation_mgr(loc, s) == NewCitationManager

\* scan.py:76: the call of image_processor.process begins
CcImageEnter(s) ==
    /\ cc_holder = 0
    /\ cc_pc[s] = "start"
    /\ cc_pc' = [cc_pc EXCEPT ![s] = "in_image"]
    /\ cc_holder' = s
    /\ UNCHANGED <<cc_loc, cc_ka>>
    /\ UNCHANGED nonCcVars

\* scan.py:76: process returns without having suspended
CcImageLeave(s) ==
    /\ cc_holder = s
    /\ cc_pc[s] = "in_image"
    /\ cc_pc' = [cc_pc EXCEPT ![s] = "lookup"]
    /\ cc_holder' = 0
    /\ UNCHANGED <<cc_loc, cc_ka>>
    /\ UNCHANGED nonCcVars

\* scan.py:99-102: get_nutrition_data suspends in client.get
\* (nutrition_api.py:37, 73)
CcLookupSend(s) ==
    /\ cc_holder = 0
    /\ cc_pc[s] = "lookup"
    /\ cc_pc' = [cc_pc EXCEPT ![s] = "in_lookup"]
    /\ UNCHANGED <<cc_loc, cc_holder, cc_ka>>
    /\ UNCHANGED nonCcVars

\* scan.py:99-117: the provider answered; no record ends the scan
CcLookupRecv(s, nd) ==
    /\ cc_holder = 0
    /\ cc_pc[s] = "in_lookup"
    /\ cc_loc' = [cc_loc EXCEPT ![s].nutrition_data = nd]
    /\ cc_pc' = [cc_pc EXCEPT ![s] = IF nd = NoneRec THEN "done" ELSE "load"]
    /\ UNCHANGED <<cc_holder, cc_ka>>
    /\ UNCHANGED nonCcVars

\* scan.py:125: profile_store.load suspends in the file read
CcLoadSend(s) ==
    /\ cc_holder = 0
    /\ cc_pc[s] = "load"
    /\ cc_pc' = [cc_pc EXCEPT ![s] = "in_load"]
    /\ UNCHANGED <<cc_loc, cc_holder, cc_ka>>
    /\ UNCHANGED nonCcVars

\* scan.py:125-137: the profile is there, or the scan ends
CcLoadRecv(s, found) ==
    /\ cc_holder = 0
    /\ cc_pc[s] = "in_load"
    /\ cc_pc' = [cc_pc EXCEPT ![s] = IF found THEN "score" ELSE "done"]
    /\ UNCHANGED <<cc_loc, cc_holder, cc_ka>>
    /\ UNCHANGED nonCcVars

\* scan.py:146, scoring.py:45-54: the allergen gate returns at once
CcScoreGate(s) ==
    /\ cc_holder = 0
    /\ cc_pc[s] = "score"
    /\ LET citation_mgr == score_citation_mgr(cc_loc, s)
       IN  cc_loc' = [cc_loc EXCEPT ![s].mgr = citation_mgr,
                                    ![s].citations = generate_citation_objects(citation_mgr)]
    /\ cc_pc' = [cc_pc EXCEPT ![s] = "done"]
    /\ UNCHANGED <<cc_holder, cc_ka>>
    /\ UNCHANGED nonCcVars

\* scan.py:146, scoring.py:45-72: score() up to the call of the agent
CcScoreEnter(s) ==
    /\ cc_holder = 0
    /\ cc_pc[s] = "score"
    /\ cc_loc' = [cc_loc EXCEPT ![s].mgr =
                     AddPrimarySource(cc_loc[s].nutrition_data, score_citation_mgr(cc_loc, s))]
    /\ cc_pc' = [cc_pc EXCEPT ![s] = "in_agent"]
    /\ cc_holder' = s
    /\ UNCHANGED cc_ka
    /\ UNCHANGED nonCcVars

\* scoring.py:72-120: the agent returned or raised; every return statement
\* passes citation_mgr.generate_citation_objects()
CcScoreLeave(s) ==
    /\ cc_holder = s
    /\ cc_pc[s] = "in_agent"
    /\ cc_loc' = [cc_loc EXCEPT ![s].citations = generate_citation_objects(cc_loc[s].mgr)]
    /\ cc_pc' = [cc_pc EXCEPT ![s] = "done"]
    /\ cc_holder' = 0
    /\ UNCHANGED cc_ka
    /\ UNCHANGED nonCcVars

\* searxng_keepalive.py:33-41, 64-66: _run_loop sends its ping
KaPing ==
    /\ cc_holder = 0
    /\ cc_ka = "ready"
    /\ cc_ka' = "pinging"
    /\ UNCHANGED <<cc_pc, cc_loc, cc_holder>>
    /\ UNCHANGED nonCcVars

\* searxng_keepalive.py:42-55, 71: the ping is answered or fails, then sleep
KaSleep ==
    /\ cc_holder = 0
    /\ cc_ka = "pinging"
    /\ cc_ka' = "sleeping"
    /\ UNCHANGED <<cc_pc, cc_loc, cc_holder>>
    /\ UNCHANGED nonCcVars

\* searxng_keepalive.py:63, 71: the sleep is over
KaWake ==
    /\ cc_holder = 0
    /\ cc_ka = "sleeping"
    /\ cc_ka' = "ready"
    /\ UNCHANGED <<cc_pc, cc_loc, cc_holder>>
    /\ UNCHANGED nonCcVars

NextCc ==
    \/ \E s \in Scans : CcImageEnter(s)
    \/ \E s \in Scans : CcImageLeave(s)
    \/ \E s \in Scans : CcLookupSend(s)
    \/ \E s \in Scans, nd \in CcRecords \cup {NoneRec} : CcLookupRecv(s, nd)
    \/ \E s \in Scans : CcLoadSend(s)
    \/ \E s \in Scans, found \in BOOLEAN : CcLoadRecv(s, found)
    \/ \E s \in Scans : CcScoreGate(s)
    \/ \E s \in Scans : CcScoreEnter(s)
    \/ \E s \in Scans : CcScoreLeave(s)
    \/ KaPing
    \/ KaSleep
    \/ KaWake

SpecCc == InitCc /\ [][NextCc]_vars


(***************************************************************************)
(* The keep-alive of the web search: app/core/searxng_keepalive.py and     *)
(* lifespan of app/main.py.  Time is counted in ticks; interval_seconds    *)
(* is IntervalTicks of them.  A task is at "created" until its first step, *)
(* at "ping" while the request of _ping is in flight, at "sleep" inside    *)
(* asyncio.sleep, and "cancelled" or "finished" when it is done.           *)
(***************************************************************************)
MaxTasks == 2
MaxStops == 1
IntervalTicks == 2

NoTask == 0
KaTasks == 1..MaxTasks
Lifespan == 0
KaCallers == 0..MaxStops
PingResponses == {"200", "503", "TimeoutException"}
NoTaskState == [pc |-> "none", cancel |-> FALSE, timer |-> 0, waited |-> 0]
IdleCall == [pc |-> "idle", task |-> NoTask]

\* asyncio.Task.done()
TaskDone(task) == task.pc \in {"cancelled", "finished"}

\* a task that start() created and that is not done
TaskPending(task) == task.pc \in {"created", "ping", "sleep"}

\* SearXNGKeepAlive.__init__
NewKeepAlive == [_running |-> FALSE, task |-> NoTask]

\* SearXNGKeepAlive.start with the loop not guarded by _running
start_unguarded(self, tasks, new) ==
    [self |-> [_running |-> TRUE, task |-> new],
     tasks |-> [tasks EXCEPT ![new] = [NoTaskState EXCEPT !.pc = "created"]]]

\* SearXNGKeepAlive.start; new is the task asyncio.create_task returns
start(self, tasks, new) ==
    IF self._running
    THEN [self |-> self, tasks |-> tasks]
    ELSE [self |-> [_running |-> TRUE, task |-> new],
          tasks |-> [tasks EXCEPT ![new] = [NoTaskState EXCEPT !.pc = "created"]]]

\* asyncio.Task.cancel: a task that is done is left alone; of any other the
\* future it waits for is cancelled (a sleep's timer with it) and
\* CancelledError is thrown into the task at its next step
cancel(task) ==
    IF TaskDone(task)
    THEN task
    ELSE [task EXCEPT !.cancel = TRUE, !.timer = 0, !.waited = 0]

\* SearXNGKeepAlive.stop up to its await; call is the caller's position
stop(self, tasks) ==
    IF ~self._running
    THEN [self |-> self, tasks |-> tasks, call |-> [pc |-> "returned", task |-> NoTask]]
    ELSE LET cancelled == IF self.task # NoTask
                          THEN [tasks EXCEPT ![self.task] = cancel(tasks[self.task])]
                          ELSE tasks
         IN  [self |-> [self EXCEPT !._running = FALSE],
              tasks |-> cancelled,
              call |-> [pc |-> "awaiting", task |-> self.task]]

\* SearXNGKeepAlive._ping: what it returns for the answer of the web search
_ping(response) == response = "200"

\* _run_loop after a ping, ending the loop when the ping failed
_run_loop_until_failure(task, ok) ==
    IF ok
    THEN [task EXCEPT !.pc = "sleep", !.timer = IntervalTicks, !.waited = 0]
    ELSE [task EXCEPT !.pc = "finished"]

\* SearXNGKeepAlive._run_loop after _ping returned or raised: the sleep
_run_loop(task, ok) ==
    [task EXCEPT !.pc = "sleep", !.timer = IntervalTicks, !.waited = 0]

\* the task that asyncio.create_task returns: one that was not used yet
UnusedTasks == {t \in KaTasks : ka_tasks[t].pc = "none"}
FreshTask ==
    IF UnusedTasks = {}
    THEN NoTask
    ELSE CHOOSE t \in UnusedTasks : \A u \in UnusedTasks : t <= u

InitKa ==
    /\ ka = NoneRec
    /\ ka_tasks = [t \in KaTasks |-> NoTaskState]
    /\ ka_calls = [c \in KaCallers |-> IdleCall]
    /\ ka_app = "startup"
    /\ ka_obs = NoObservation
    /\ schemas = "schemas_v2"
    /\ ScanUnused
    /\ ScoreUnused
    /\ AggUnused
    /\ LedUnused
    /\ UiUnused
    /\ PsUnused
    /\ HmUnused
    /\ CcUnused

\* main.py:27-31, searxng_keepalive.py:103-116: init_keepalive at startup
LifespanStartup ==
    /\ ka_app = "startup"
    /\ LET r == start(NewKeepAlive, ka_tasks, FreshTask)
       IN  /\ ka' = r.self
           /\ ka_tasks' = r.tasks
    /\ ka_app' = "serving"
    /\ UNCHANGED <<ka_calls, ka_obs>>
    /\ UNCHANGED nonKaVars

\* searxng_keepalive.py:74-83: a call of start() while the server runs
KaStart ==
    /\ ka_app = "serving"
    /\ ka._running \/ UnusedTasks # {}
    /\ LET r == start(ka, ka_tasks, FreshTask)
       IN  /\ ka' = r.self
           /\ ka_tasks' = r.tasks
    /\ UNCHANGED <<ka_calls, ka_app, ka_obs>>
    /\ UNCHANGED nonKaVars

\* searxng_keepalive.py:85-94: caller c calls stop(), which runs to its await
KaStopCall(c) ==
    /\ c # Lifespan
    /\ ka_app = "serving"
    /\ ka_calls[c].pc \in {"idle", "returned"}
    /\ LET r == stop(ka, ka_tasks)
       IN  /\ ka' = r.self
           /\ ka_tasks' = r.tasks
           /\ ka_calls' = [ka_calls EXCEPT ![c] = r.call]
    /\ UNCHANGED <<ka_app, ka_obs>>
    /\ UNCHANGED nonKaVars

\* main.py:33-35, searxng_keepalive.py:117-123: shutdown_keepalive
LifespanShutdown ==
    /\ ka_app = "serving"
    /\ LET r == stop(ka, ka_tasks)
       IN  /\ ka' = r.self
           /\ ka_tasks' = r.tasks
           /\ ka_calls' = [ka_calls EXCEPT ![Lifespan] = r.call]
           /\ ka_app' = IF r.call.pc = "returned" THEN "down" ELSE "shutdown"
    /\ UNCHANGED ka_obs
    /\ UNCHANGED nonKaVars

\* searxng_keepalive.py:92-96: the awaited task is done and stop() returns
KaStopReturn(c) ==
    /\ ka_calls[c].pc = "awaiting"
    /\ ka_calls[c].task = NoTask \/ TaskDone(ka_tasks[ka_calls[c].task])
    /\ ka_calls' = [ka_calls EXCEPT ![c] = [pc |-> "returned", task |-> NoTask]]
    /\ ka_app' = IF c = Lifespan THEN "down" ELSE ka_app
    /\ UNCHANGED <<ka, ka_tasks, ka_obs>>
    /\ UNCHANGED nonKaVars

\* what is known of the pings once task t has sent one more
PingIssued(t, gap) ==
    [ka_obs EXCEPT !.gap = gap,
                   !.late = @ \/ ~ka._running \/ ka.task # t]

\* searxng_keepalive.py:57-66, 33-41: the first step of the task, up to
\* the request of the first ping
KaLoopEnter(t) ==
    /\ ka_tasks[t].pc = "created"
    /\ ~ka_tasks[t].cancel
    /\ IF ka._running
       THEN /\ ka_tasks' = [ka_tasks EXCEPT ![t].pc = "ping"]
            /\ ka_obs' = PingIssued(t, NoneNum)
       ELSE /\ ka_tasks' = [ka_tasks EXCEPT ![t].pc = "finished"]
            /\ UNCHANGED ka_obs
    /\ UNCHANGED <<ka, ka_calls, ka_app>>
    /\ UNCHANGED nonKaVars

\* searxng_keepalive.py:42-55, 64-71: the request is answered, times out
\* or fails; raised says that _ping itself raised
KaPingReturn(t, response, raised) ==
    /\ ka_tasks[t].pc = "ping"
    /\ ~ka_tasks[t].cancel
    /\ LET ok == IF raised THEN FALSE ELSE _ping(response)
       IN  /\ ka_tasks' = [ka_tasks EXCEPT ![t] = _run_loop(@, ok)]
           /\ ka_obs' = [ka_obs EXCEPT !.last = IF raised THEN "raised" ELSE response]
    /\ UNCHANGED <<ka, ka_calls, ka_app>>
    /\ UNCHANGED nonKaVars

\* searxng_keepalive.py:63-66, 71: the sleep is over, the loop tests
\* _running and sends the next ping
KaSleepOver(t) ==
    /\ ka_tasks[t].pc = "sleep"
    /\ ~ka_tasks[t].cancel
    /\ ka_tasks[t].timer = 0
    /\ IF ka._running
       THEN /\ ka_tasks' = [ka_tasks EXCEPT ![t].pc = "ping"]
            /\ ka_obs' = PingIssued(t, ka_tasks[t].waited)
       ELSE /\ ka_tasks' = [ka_tasks EXCEPT ![t].pc = "finished"]
            /\ UNCHANGED ka_obs
    /\ UNCHANGED <<ka, ka_calls, ka_app>>
    /\ UNCHANGED nonKaVars

\* asyncio: CancelledError is thrown into the task where it waits; neither
\* except clause (lines 53, 67) catches it, and the task is done
KaCancelDeliver(t) ==
    /\ TaskPending(ka_tasks[t])
    /\ ka_tasks[t].cancel
    /\ ka_tasks' = [ka_tasks EXCEPT ![t].pc = "cancelled"]
    /\ UNCHANGED <<ka, ka_calls, ka_app, ka_obs>>
    /\ UNCHANGED nonKaVars

\* a task inside asyncio.sleep that was not cancelled
Sleeping(task) == task.pc = "sleep" /\ ~task.cancel

\* one tick of time passes for every task inside asyncio.sleep; a sleep
\* that is over ends before more time passes
KaTick ==
    /\ \E t \in KaTasks : Sleeping(ka_tasks[t])
    /\ \A t \in KaTasks : Sleeping(ka_tasks[t]) => ka_tasks[t].timer > 0
    /\ ka_tasks' = [t \in KaTasks |->
                       IF Sleeping(ka_tasks[t])
                       THEN [ka_tasks[t] EXCEPT !.timer = @ - 1, !.waited = @ + 1]
                       ELSE ka_tasks[t]]
    /\ UNCHANGED <<ka, ka_calls, ka_app, ka_obs>>
    /\ UNCHANGED nonKaVars

KaTaskStep(t) ==
    \/ KaLoopEnter(t)
    \/ \E response \in PingResponses : KaPingReturn(t, response, FALSE)
    \/ KaPingReturn(t, "None", TRUE)
    \/ KaSleepOver(t)
    \/ KaCancelDeliver(t)

NextKa ==
    \/ LifespanStartup
    \/ KaStart
    \/ \E c \in KaCallers : KaStopCall(c)
    \/ LifespanShutdown
    \/ \E c \in KaCallers : KaStopReturn(c)
    \/ \E t \in KaTasks : KaLoopEnter(t)
    \/ \E t \in KaTasks, response \in PingResponses : KaPingReturn(t, response, FALSE)
    \/ \E t \in KaTasks : KaPingReturn(t, "None", TRUE)
    \/ \E t \in KaTasks : KaSleepOver(t)
    \/ \E t \in KaTasks : KaCancelDeliver(t)
    \/ KaTick

SpecKa == InitKa /\ [][NextKa]_vars

\* the event loop runs every task that can take a step, and time passes
SpecKaLive ==
    /\ SpecKa
    /\ \A t \in KaTasks : WF_vars(KaTaskStep(t))
    /\ WF_vars(KaTick)


(***************************************************************************)
(* Properties of the scan orchestrator                                     *)
(***************************************************************************)
IsProgress(e) == e.name = "scan_progress"
IsTerminal(e) == e.name \in {"scan_error", "scan_complete"}

ProgressEvents == SelectSeq(emitted, IsProgress)
TerminalEvents == SelectSeq(emitted, IsTerminal)
HasTerminal == Len(TerminalEvents) > 0
HandlerOver == pc \in {"done", "escaped"} /\ scan_no > 0

StageOrder == <<"detecting_barcode", "fetching_nutrition", "loading_profile",
                "analyzing", "generating_ui">>

\* the stage a collaborator belongs to
StageOf(c) ==
    CASE c \in {"base64.b64decode", "image_processor.process"} -> 1
      [] c \in {"nutrition_aggregator.get_nutrition_data",
                "get_by_barcode", "search_by_text"} -> 2
      [] c = "profile_store.load" -> 3
      [] c = "scoring_service.score" -> 4
      [] OTHER -> 5

C2_TerminalAlwaysEmitted ==
    HandlerOver => Len(TerminalEvents) = 1

IsError(e) == e.name = "scan_error"
IsComplete(e) == e.name = "scan_complete"
ErrorEvents == SelectSeq(emitted, IsError)
CompleteEvents == SelectSeq(emitted, IsComplete)

RequestValid == data.isdict /\ StartScanEventValid(data.fields)

\* what a failing stage has to report: <<stage, error_code, last stage whose
\* collaborators may have run>>
ReportsFailure(stage, error_code, k) ==
    /\ Len(ErrorEvents) = 1
    /\ ErrorEvents[1].kw.stage = stage
    /\ ErrorEvents[1].kw.error_code = error_code
    /\ Len(CompleteEvents) = 0
    /\ \A j \in 1..Len(calls) : StageOf(calls[j]) <= k

\* C4: a scan whose image data cannot be decoded, whose image gives neither
\* barcode nor text, whose product lookup misses or whose profile is absent
\* ends with exactly one error notification naming that stage and its code,
\* no completion notification, and no call to a collaborator of a later stage.
C4_StageFailureReported ==
    HandlerOver =>
      /\ (RequestValid /\ B64Invalid(data.fields.image_data))
            => ReportsFailure("detecting_barcode", "IMAGE_DECODE_ERROR", 1)
      /\ (locals.image_result # NoneRec
          /\ ~TruthyText(locals.image_result.barcode)
          /\ ~TruthyText(locals.image_result.ocr_text))
            => ReportsFailure("detecting_barcode", "IMAGE_PROCESSING_FAILED", 1)
      /\ ((\E j \in 1..Len(calls) : calls[j] = "nutrition_aggregator.get_nutrition_data")
          /\ locals.nutrition_data = NoneRec)
            => ReportsFailure("fetching_nutrition", "PRODUCT_NOT_FOUND", 2)
      /\ ((\E j \in 1..Len(calls) : calls[j] = "profile_store.load")
          /\ locals.user_profile = NoneRec)
            => ReportsFailure("loading_profile", "PROFILE_NOT_FOUND", 3)

\* C5: no exception leaves the handler, and a scan that met one (here: a
\* payload StartScanEvent rejects, or one that is no dict) ends with a single
\* error notification whose code is INTERNAL_ERROR and whose recoverable flag
\* is true.
C5_ExceptionsNormalised ==
    /\ pc # "escaped"
    /\ (HandlerOver /\ ~RequestValid) =>
          /\ Len(emitted) = 1
          /\ IsError(emitted[1])
          /\ emitted[1].kw.error_code = "INTERNAL_ERROR"
          /\ "recoverable" \in DOMAIN emitted[1].kw
          /\ emitted[1].kw.recoverable = TRUE

AgentBroke(agent_out) ==
    agent_out.raised \/ ~(AgentFields \subseteq DOMAIN agent_out.result)

\* ... or the prediction's score or confidence text is no number
AgentUnusable(agent_out) ==
    \/ AgentBroke(agent_out)
    \/ ~ParseFloat(agent_out.result.score).ok
    \/ ~ParseFloat(agent_out.result.confidence).ok

Stage4Ran == locals.scoring_result # NoneRec

NoAllergenHit ==
    Len(_check_allergens(locals.nutrition_data, locals.user_profile)) = 0

IsFallbackResult(r, nutrition_data) ==
    /\ r.reasoning_steps = <<"Rule-based fallback scoring">>
    /\ r.confidence = 600
    /\ r.data_quality_score = clean(nutrition_data)[2]

TagMember(allergen, nutrition_data) ==
    \E i \in 1..Len(nutrition_data.allergens) :
        Lower(nutrition_data.allergens[i]) = Lower(allergen)

TagContains(allergen, nutrition_data) ==
    \E i \in 1..Len(nutrition_data.allergens) :
        IsSubstring(Lower(allergen), Lower(nutrition_data.allergens[i]))

IngredientsContain(allergen, nutrition_data) ==
    IsSubstring(Lower(allergen), Lower(JoinSpace(nutrition_data.ingredients)))

\* the hits of the gate: per allergen one for the tags, one for the ingredients
RECURSIVE HitCount(_, _)
HitCount(allergies, nutrition_data) ==
    IF Len(allergies) = 0 THEN 0
    ELSE (IF TagContains(Head(allergies), nutrition_data) THEN 1 ELSE 0)
         + (IF IngredientsContain(Head(allergies), nutrition_data) THEN 1 ELSE 0)
         + HitCount(Tail(allergies), nutrition_data)

GateDecided == sc_pc \notin {"start", "gate"}
GateFired == sc_pc = "done" /\ sc_steps = <<"_check_allergens">>

\* C7: when the allergen gate finds a hit, score() returns score 0, verdict
\* avoid, confidence 1.0, data quality 1.0 and one warning per hit, and the
\* cleaner, the citation registration, the agent and the fallback do not run.
C7_GateIsTerminal ==
    (GateDecided /\ HitCount(sc_in.user_profile.allergies, sc_in.nutrition_data) > 0) =>
        /\ sc_pc = "done"
        /\ sc_steps = <<"_check_allergens">>
        /\ sc_dq = -1
        /\ sc_mgr = NewCitationManager
        /\ sc_result.score = 0
        /\ sc_result.verdict = "avoid"
        /\ sc_result.confidence = 1000
        /\ sc_result.data_quality_score = 1000
        /\ Len(sc_result.warnings)
              = HitCount(sc_in.user_profile.allergies, sc_in.nutrition_data)
        /\ sc_result.citations = <<>>

C7_Witness ==
    /\ sc_pc = "done"
    /\ sc_result.score = 0
    /\ Len(sc_result.warnings) = 2
    /\ sc_in.user_profile.allergies = <<W_peanut>>
    /\ ~AgentFails(sc_in.agent_out)

\* C8 as stated: the gate fires exactly when some user allergen equals an
\* allergen tag ignoring case or is a case-insensitive substring of the
\* ingredients text.
C8_GateIffMember ==
    GateDecided =>
        (GateFired <=>
            \E k \in 1..Len(sc_in.user_profile.allergies) :
                \/ TagMember(sc_in.user_profile.allergies[k], sc_in.nutrition_data)
                \/ IngredientsContain(sc_in.user_profile.allergies[k], sc_in.nutrition_data))

\* C8 amended: the gate fires exactly when some user allergen is a
\* case-insensitive substring of an allergen tag or of the space-joined
\* ingredients text; allergen "peanut" against tag "Peanut" gives score 0 and
\* verdict avoid whatever the agent would have done.
C8_GateIffSubstring ==
    GateDecided =>
        /\ GateFired <=>
              \E k \in 1..Len(sc_in.user_profile.allergies) :
                  \/ TagContains(sc_in.user_profile.allergies[k], sc_in.nutrition_data)
                  \/ IngredientsContain(sc_in.user_profile.allergies[k], sc_in.nutrition_data)
        /\ (sc_in.user_profile.allergies = <<W_peanut>>
            /\ sc_in.nutrition_data.allergens = <<W_Peanut>>)
              => /\ GateFired
                 /\ sc_result.score = 0
                 /\ sc_result.verdict = "avoid"

C8_Witness ==
    /\ GateFired
    /\ sc_in.user_profile.allergies = <<W_peanut>>
    /\ sc_in.nutrition_data.allergens = <<W_Peanut>>
    /\ sc_in.nutrition_data.ingredients = <<>>
    /\ sc_in.agent_out.raised

FallbackRan ==
    /\ sc_pc = "done"
    /\ Len(sc_steps) > 0
    /\ sc_steps[Len(sc_steps)] = "_fallback_scoring"

\* C10: the fallback's score is 5.0 - 2.0 if sugar exceeds half the daily
\* sugar target - 2.0 if sodium exceeds 30% of the daily sodium target + 1.0
\* if protein exceeds 10 g + 1.0 if fiber exceeds 5 g, clamped to [0,10]; the
\* verdict is good from 7.0, moderate from 4.0, else avoid; confidence is 0.6;
\* with the sugar penalty alone the score is 3.0 and a sugar warning is there.
C10_FallbackFormula ==
    FallbackRan =>
        LET nd == sc_in.nutrition_data
            t == sc_in.user_profile.daily_targets
            sugar == 2 * nd.sugar_g > t.sugar_g
            sodium == 10 * nd.sodium_mg > 3 * t.sodium_mg
            protein == nd.protein_g > 10
            fiber == nd.fiber_g # NoneNum /\ nd.fiber_g > 5
            raw == 50 - (IF sugar THEN 20 ELSE 0) - (IF sodium THEN 20 ELSE 0)
                      + (IF protein THEN 10 ELSE 0) + (IF fiber THEN 10 ELSE 0)
            expected == IF raw < 0 THEN 0 ELSE IF raw > 100 THEN 100 ELSE raw
        IN  /\ sc_result.score = expected
            /\ sc_result.verdict = (IF expected >= 70 THEN "good"
                                    ELSE IF expected >= 40 THEN "moderate" ELSE "avoid")
            /\ sc_result.confidence = 600
            /\ (sugar /\ ~sodium /\ ~protein /\ ~fiber) =>
                  /\ sc_result.score = 30
                  /\ \E i \in 1..Len(sc_result.warnings) :
                        sc_result.warnings[i] = "High sugar content"

C10_Witness ==
    /\ FallbackRan
    /\ sc_in.nutrition_data.sugar_g = 40
    /\ sc_in.user_profile.daily_targets.sugar_g = 30
    /\ sc_result.score = 30
    /\ sc_result.verdict = "avoid"
    /\ sc_result.warnings = <<"High sugar content">>


\* ---------------------------------------------------------------------------
\* Properties of the nutrition aggregator (specification SpecAgg)
\* ---------------------------------------------------------------------------

AggDone == ag_pc = "done"
BothAbsent == ~TruthyText(ag_in.barcode) /\ ~TruthyText(ag_in.product_name)
Called(step) == \E i \in 1..Len(ag_calls) : ag_calls[i] = step
CallCount(step) == Cardinality({i \in 1..Len(ag_calls) : ag_calls[i] = step})

\* C11: get_nutrition_data with neither barcode nor product name returns
\* not-found and calls no provider.
C11_BothAbsentNoCalls ==
    (ag_pc # "unused" /\ BothAbsent) =>
        /\ ag_calls = <<>>
        /\ ag_pc # "raised"
        /\ AggDone => ag_result = NoneRec

C11_Witness ==
    /\ AggDone
    /\ ag_in.barcode = None
    /\ ag_in.product_name = None
    /\ ag_in.barcode_response.kind = "product"
    /\ ag_in.search_response.kind = "product"
    /\ ag_result = NoneRec

\* a step of the chain succeeds when the provider answers with a product
BarcodeStepRecord ==
    IF TruthyText(ag_in.barcode) /\ ag_in.barcode_response.kind = "product"
    THEN _parse_product(ag_in.barcode_response.product, ag_in.barcode)
    ELSE NoneRec

SearchStepRecord ==
    IF TruthyText(ag_in.product_name) /\ ag_in.search_response.kind = "product"
    THEN _parse_product(ag_in.search_response.product,
                        ag_in.search_response.product.code)
    ELSE NoneRec

\* C12: the barcode lookup comes first and only with a barcode, the text
\* search only with a name and after a barcode step without record, the
\* record returned is that of the first step that succeeds, no provider is
\* called after a success or after the return, and each at most once.
C12_ChainOrder ==
    /\ [](ag_pc # "unused" =>
            /\ CallCount("get_by_barcode") <= 1
            /\ CallCount("search_by_text") <= 1
            /\ Called("get_by_barcode") =>
                  (TruthyText(ag_in.barcode) /\ ag_calls[1] = "get_by_barcode")
            /\ Called("search_by_text") =>
                  (TruthyText(ag_in.product_name) /\ BarcodeStepRecord = NoneRec)
            /\ AggDone =>
                  /\ ag_result = (IF BarcodeStepRecord # NoneRec
                                  THEN BarcodeStepRecord ELSE SearchStepRecord)
                  /\ TruthyText(ag_in.barcode) => Called("get_by_barcode")
                  /\ (TruthyText(ag_in.product_name) /\ BarcodeStepRecord = NoneRec)
                        => Called("search_by_text"))
    /\ [][AggDone => ag_calls' = ag_calls]_vars

C12_Witness ==
    /\ AggDone
    /\ ag_calls = <<"get_by_barcode", "search_by_text">>
    /\ ag_in.barcode_response.kind = "empty"
    /\ ag_result # NoneRec
    /\ ag_result.barcode = "3017620422003"

ProviderFailed(response) == response.kind \in {"exception", "status", "unparsable"}

\* C13: an exception, a timeout, a status other than 200 or an unparsable
\* body in a chain step never leaves get_nutrition_data as an exception, and
\* after a failing barcode lookup the text search still runs when a name is
\* given and its record is the one returned.
C13_FailuresSwallowed ==
    /\ ag_pc # "raised"
    /\ (AggDone /\ TruthyText(ag_in.barcode) /\ ProviderFailed(ag_in.barcode_response)
        /\ TruthyText(ag_in.product_name)) =>
          /\ ag_calls = <<"get_by_barcode", "search_by_text">>
          /\ ag_result = search_by_text(ag_in.product_name, ag_in.search_response)

C13_Witness ==
    /\ AggDone
    /\ ag_in.barcode_response.kind = "exception"
    /\ ag_calls = <<"get_by_barcode", "search_by_text">>
    /\ ag_result # NoneRec
    /\ ag_result.product_name = W_PeanutOil


\* ---------------------------------------------------------------------------
\* Properties of the citation ledger (specification SpecLedger)
\* ---------------------------------------------------------------------------

IsAdd(c) == c.op = "add_source"
IsClear(c) == c.op = "clear"

\* no clear() among the calls i+1 .. j-1 of the log
NoClearBetween(i, j) == \A k \in (i + 1)..(j - 1) : ~IsClear(led_log[k])

\* C14: add_source with a URL the ledger holds returns the id first given to
\* that URL and changes neither the source list (title, snippet, source type
\* and timestamp of the entry included) nor the next id; two distinct URLs
\* added to a fresh ledger get the ids 1 and 2 in call order.
C14_AddSourceIdempotent ==
    /\ [](/\ \A i \in 1..Len(led_log), j \in 1..Len(led_log) :
                (/\ i < j /\ IsAdd(led_log[i]) /\ IsAdd(led_log[j])
                 /\ led_log[i].args.url = led_log[j].args.url
                 /\ NoClearBetween(i, j))
                => led_log[j].ret = led_log[i].ret
          /\ (/\ Len(led_log) >= 2
              /\ IsAdd(led_log[1]) /\ IsAdd(led_log[2])
              /\ led_log[1].args.url # led_log[2].args.url)
                => (led_log[1].ret = 1 /\ led_log[2].ret = 2))
    /\ [][(/\ Len(led_log') = Len(led_log) + 1
           /\ IsAdd(led_log'[Len(led_log')])
           /\ led_log'[Len(led_log')].args.url \in DOMAIN led.citation_map)
          => /\ led'.sources = led.sources
             /\ led'.next_id = led.next_id
             /\ led'.citation_map = led.citation_map
             /\ led_log'[Len(led_log')].ret
                   = led.citation_map[led_log'[Len(led_log')].args.url]]_vars

C14_Witness ==
    /\ Len(led_log) = 3
    /\ IsAdd(led_log[1]) /\ led_log[1].args.title = "Oats" /\ led_log[1].ret = 1
    /\ IsAdd(led_log[2]) /\ led_log[2].args.url = U_who /\ led_log[2].ret = 2
    /\ IsAdd(led_log[3]) /\ led_log[3].args.title = "Oats again" /\ led_log[3].ret = 1
    /\ Len(led.sources) = 2
    /\ led.sources[1].title = "Oats"
    /\ led.sources[1].accessed = 1
    /\ led.next_id = 3

\* the URLs added since the last clear(), each once, in first-seen order
RECURSIVE FirstSeen(_)
FirstSeen(log) ==
    IF Len(log) = 0 THEN <<>>
    ELSE LET before == FirstSeen(SubSeq(log, 1, Len(log) - 1))
             c == log[Len(log)]
         IN  IF IsClear(c) THEN <<>>
             ELSE IF \E i \in 1..Len(before) : before[i] = c.args.url THEN before
             ELSE Append(before, c.args.url)

\* C15: after any sequence of add_source and clear calls the stored sources
\* carry the ids 1..n in first-seen order with pairwise distinct URLs, the
\* URL-to-id map holds exactly those URLs with their ids and next_id is n+1;
\* clear() empties the ledger and the next URL added, registered before or
\* not, gets id 1.
C15_LedgerWellFormed ==
    /\ \A i \in 1..Len(led.sources) : led.sources[i].id = i
    /\ [i \in 1..Len(led.sources) |-> led.sources[i].url] = FirstSeen(led_log)
    /\ \A i \in 1..Len(led.sources), j \in 1..Len(led.sources) :
          i # j => led.sources[i].url # led.sources[j].url
    /\ DOMAIN led.citation_map = {led.sources[i].url : i \in 1..Len(led.sources)}
    /\ \A i \in 1..Len(led.sources) : led.citation_map[led.sources[i].url] = i
    /\ led.next_id = Len(led.sources) + 1
    /\ (Len(led_log) > 0 /\ IsClear(led_log[Len(led_log)])) =>
          /\ led.sources = <<>>
          /\ DOMAIN led.citation_map = {}
          /\ led.next_id = 1
    /\ \A i \in 1..(Len(led_log) - 1) :
          (IsClear(led_log[i]) /\ IsAdd(led_log[i + 1])) => led_log[i + 1].ret = 1

C15_Witness ==
    /\ Len(led_log) = 4
    /\ IsAdd(led_log[1]) /\ led_log[1].args.url = U_off
    /\ IsAdd(led_log[2]) /\ led_log[2].args.url = U_who /\ led_log[2].ret = 2
    /\ IsClear(led_log[3])
    /\ IsAdd(led_log[4]) /\ led_log[4].args.url = U_who /\ led_log[4].ret = 1
    /\ Len(led.sources) = 1
    /\ led.next_id = 2


\* ---------------------------------------------------------------------------
\* Citations of the ScoringResult (specification SpecScore)
\* ---------------------------------------------------------------------------

ScoreDone == sc_pc = "done"

\* C16: on the gate path, the agent path and the fallback path the citations
\* of the ScoringResult are the sources of the call's ledger when score()
\* returns: same ids, same URLs, in id order, none missing, none added.
C16_CitationsAreLedger ==
    ScoreDone =>
        /\ Len(sc_result.citations) = Len(sc_mgr.sources)
        /\ \A i \in 1..Len(sc_mgr.sources) :
              /\ sc_result.citations[i].id = sc_mgr.sources[i].id
              /\ sc_result.citations[i].url = sc_mgr.sources[i].url
              /\ sc_result.citations[i].id = i

C16_Witness ==
    /\ ScoreDone
    /\ sc_steps = <<"_check_allergens", "clean", "add_source", "agent.forward">>
    /\ Len(sc_result.citations) = 1
    /\ sc_result.citations[1].id = 1
    /\ sc_result.citations[1].url
          = <<"https://world.openfoodfacts.org/product/", "3017620422003">>

AgentRan == \E i \in 1..Len(sc_steps) : sc_steps[i] = "agent.forward"

\* C17: every tool result with a URL that the agent was given during the
\* reasoning pass is registered in the call's ledger and is among the
\* citations of the ScoringResult.
C17_ToolResultsCited ==
    (ScoreDone /\ AgentRan) =>
        \A k \in 1..Len(sc_in.agent_out.tool_results) :
            sc_in.agent_out.tool_results[k].url # "" =>
                /\ sc_in.agent_out.tool_results[k].url \in DOMAIN sc_mgr.citation_map
                /\ \E i \in 1..Len(sc_result.citations) :
                      sc_result.citations[i].url = sc_in.agent_out.tool_results[k].url


\* ---------------------------------------------------------------------------
\* Ranges of the ScoringResult (specification SpecScore)
\* ---------------------------------------------------------------------------

AgentPath == Len(sc_steps) > 0 /\ sc_steps[Len(sc_steps)] = "agent.forward"

\* C18: whatever the path and the agent's output, the ScoringResult has a
\* score in [0,10], a confidence and a data quality score in [0,1] and a
\* verdict among good, moderate, avoid; an agent score that float() rejects
\* becomes 5.0 and an agent verdict naming neither good nor avoid becomes
\* moderate.
C18_ResultInRange ==
    ScoreDone =>
        /\ sc_result.score >= 0 /\ sc_result.score <= 100
        /\ sc_result.confidence >= 0 /\ sc_result.confidence <= 1000
        /\ sc_result.data_quality_score >= 0 /\ sc_result.data_quality_score <= 1000
        /\ sc_result.verdict \in {"good", "moderate", "avoid"}
        /\ AgentPath =>
              /\ ~ParseFloat(sc_in.agent_out.result.score).ok => sc_result.score = 50
              /\ (/\ ~IsSubstring(W_good, Lower(sc_in.agent_out.result.verdict))
                  /\ ~IsSubstring(W_avoid, Lower(sc_in.agent_out.result.verdict)))
                    => sc_result.verdict = "moderate"

C18_Witness ==
    /\ ScoreDone
    /\ AgentPath
    /\ sc_in.agent_out.result.score = T_high
    /\ sc_in.agent_out.result.verdict = W_ok
    /\ sc_result.score = 50
    /\ sc_result.verdict = "moderate"
    /\ sc_result.data_quality_score = 400

\* the clamp at work: an agent score of 12 is returned as 10.0
C18_ClampWitness ==
    /\ ScoreDone
    /\ AgentPath
    /\ sc_in.agent_out.result.score = T_12
    /\ sc_result.score = 100


\* ---------------------------------------------------------------------------
\* Properties of the UI schema builder (specification SpecUi)
\* ---------------------------------------------------------------------------

UiDone == ui_pc = "done"

\* C19: the verdict good gives (encouraging, green), moderate (balanced,
\* yellow), avoid (alert, red) and any other verdict (balanced, yellow).
C19_LayoutAndTheme ==
    UiDone =>
        /\ ui_in.verdict = "good" =>
              (ui_schema.layout = "encouraging" /\ ui_schema.theme = "green")
        /\ ui_in.verdict = "moderate" =>
              (ui_schema.layout = "balanced" /\ ui_schema.theme = "yellow")
        /\ ui_in.verdict = "avoid" =>
              (ui_schema.layout = "alert" /\ ui_schema.theme = "red")
        /\ ui_in.verdict \notin {"good", "moderate", "avoid"} =>
              (ui_schema.layout = "balanced" /\ ui_schema.theme = "yellow")

C19_Witness ==
    /\ UiDone
    /\ ui_in.verdict = "GOOD"
    /\ ui_schema.layout = "balanced"
    /\ ui_schema.theme = "yellow"

C19_AvoidWitness ==
    /\ UiDone
    /\ ui_in.verdict = "avoid"
    /\ ui_schema.layout = "alert"
    /\ ui_schema.theme = "red"
    /\ ui_schema.components[1].type = "verdict_badge"
    /\ ui_schema.components[1].order = 0

\* the component kinds the claim names, in its order
ExpectedKinds(scoring) ==
    <<"verdict_badge", "score_display">>
    \o (IF scoring.warnings # <<>> THEN <<"allergen_alert", "warning_list">> ELSE <<>>)
    \o (IF scoring.highlights # <<>> THEN <<"highlight_list">> ELSE <<>>)
    \o <<"reasoning_section">>
    \o (IF scoring.citations # <<>> THEN <<"citation_list">> ELSE <<>>)

KindOf(component) ==
    IF component.type = "insight_list"
    THEN (IF component.props.type = "warning" THEN "warning_list" ELSE "highlight_list")
    ELSE component.type

\* C20: the components are, in this order, verdict badge, score display,
\* allergen alert and warning list (both exactly when there are warnings),
\* highlight list (exactly when there are highlights), reasoning section
\* (always, collapsed), citation list (exactly when there are citations);
\* the order fields are 0..n-1, equal to the list position.
C20_ComponentOrder ==
    UiDone =>
        LET cs == ui_schema.components
        IN  /\ [i \in 1..Len(cs) |-> KindOf(cs[i])] = ExpectedKinds(ui_in)
            /\ \A i \in 1..Len(cs) : cs[i].order = i - 1
            /\ cs[1].type = "verdict_badge" /\ cs[1].order = 0
            /\ \A i \in 1..Len(cs) :
                  /\ cs[i].type = "reasoning_section" => cs[i].props.expanded = FALSE
                  /\ KindOf(cs[i]) = "warning_list" => cs[i].props.items = ui_in.warnings
                  /\ KindOf(cs[i]) = "highlight_list" => cs[i].props.items = ui_in.highlights
                  /\ cs[i].type = "allergen_alert" => cs[i].props.warnings = ui_in.warnings

C20_Witness ==
    /\ UiDone
    /\ Len(ui_schema.components) = 7
    /\ ui_schema.components[3].type = "allergen_alert"
    /\ ui_schema.components[5].props.type = "highlight"
    /\ ui_schema.components[7].type = "citation_list"
    /\ ui_schema.components[7].order = 6

\* ---------------------------------------------------------------------------
\* Properties of the profile store (specification SpecPs)
\* ---------------------------------------------------------------------------

PsDone(t, op) == ps_task[t].op = op /\ ps_task[t].pc = "done"

\* the targets of a stored profile are those of its own fields
TargetsCurrent(p) ==
    p.daily_targets = calculate(p.age, p.gender, p.height_cm, p.weight_kg, p.goals)

\* the values a partial update carries for the fields the targets depend on,
\* whether flat or nested in demographics
CarriedTriggers(updates) ==
    LET flat == [k \in (DOMAIN updates) \cap (TriggerFields \ {"goals"}) |-> updates[k]]
        nested == IF "demographics" \in DOMAIN updates
                  THEN updates.demographics ELSE flat
    IN  [k \in { j \in DOMAIN nested : ~IsNoneValue(j, nested[j]) } |-> nested[k]]

CarriesGoals(updates) == "goals" \in DOMAIN updates

\* C21: every stored profile has the targets computed from its current age,
\* gender, height, weight and goals, and an update of an existing profile that
\* carries values for those fields, flat or nested, answers with the profile
\* holding them and the targets recomputed from them.
C21_TargetsFollowProfile ==
    /\ \A n \in DOMAIN ps_files :
          (IsProfile(ps_files[n]) /\ "age" \in DOMAIN ps_files[n])
             => TargetsCurrent(ps_files[n])
    /\ \A t \in Slots :
          (PsDone(t, "update") /\ ps_task[t].existed
             /\ (CarriesGoals(ps_task[t].arg) \/ DOMAIN CarriedTriggers(ps_task[t].arg) # {}))
          => /\ ps_task[t].resp = "200"
             /\ \A k \in DOMAIN CarriedTriggers(ps_task[t].arg) :
                   ps_task[t].profile[k] = CarriedTriggers(ps_task[t].arg)[k]
             /\ TargetsCurrent(ps_task[t].profile)

\* a create or update answered in this step
Answers(t, op, resp) ==
    /\ ps_task[t].pc # "done" \/ ps_task[t].op # op \/ ps_task'[t] # ps_task[t]
    /\ ps_task'[t].op = op /\ ps_task'[t].pc = "done" /\ ps_task'[t].resp = resp

\* C22: create fails on an existing name and leaves the stored profile as it
\* is, update fails on an absent name and creates none; 409 is answered only
\* to a create on an existing name, 404 only to a fetch or update of a
\* profile that is absent.
C22_ConflictAndNotFound ==
    /\ [](\A t \in Slots :
            /\ (PsDone(t, "create") /\ ps_task[t].existed) => ps_task[t].resp = "409"
            /\ (PsDone(t, "update") /\ ~ps_task[t].existed) => ps_task[t].resp = "404"
            /\ (ps_task[t].pc = "done" /\ ps_task[t].resp = "409")
                  => (ps_task[t].op = "create" /\ ps_task[t].existed)
            /\ (ps_task[t].pc = "done" /\ ps_task[t].resp = "404")
                  => (ps_task[t].op \in {"fetch", "update"} /\ ~ps_task[t].existed))
    /\ [][\A t \in Slots :
            (Answers(t, "create", "409") \/ Answers(t, "update", "404"))
               => ps_files' = ps_files]_vars

\* C29: a scan that loads a profile which exists gets a completely written
\* profile, whatever write is in progress, and does not end in
\* PROFILE_NOT_FOUND.
C29_LoadSeesWholeProfile ==
    \A t \in Slots :
        (PsDone(t, "scan_load") /\ ps_task[t].existed)
        => /\ ps_task[t].resp = "loaded"
           /\ IsProfile(ps_task[t].profile)
           /\ TargetsCurrent(ps_task[t].profile)


(***************************************************************************)
(* Health Modeling Engine properties, under SpecHm.                        *)
(***************************************************************************)
BmrCheckInput ==
    /\ hm_in.demographics = [age |-> 30, gender |-> "male", height_cm |-> 180,
                             weight_kg |-> 80]
    /\ hm_pc # "start"

\* C23 as stated: for age 30, male, 180 cm and 80 kg the computed BMR is
\* 1742.5 (6970 quarters of a kcal)
C23_BmrCheckStated == BmrCheckInput => hm.bmr = 6970

\* C23 amended: for age 30, male, 180 cm and 80 kg the computed BMR is 1780.0,
\* the value of 10 * weight + 6.25 * height - 5 * age + 5
C23_BmrCheck == BmrCheckInput => hm.bmr = 7120

C23_Witness == BmrCheckInput /\ hm.bmr = 7120 /\ hm_pc = "adjust"

\* the classification the specification states, on BMI in hundredths
StatedCategories(bmi) ==
    (IF bmi < 1850 THEN {"underweight"} ELSE {})
    \cup (IF 1850 <= bmi /\ bmi < 2500 THEN {"normal"} ELSE {})
    \cup (IF 2500 <= bmi /\ bmi < 3000 THEN {"overweight"} ELSE {})
    \cup (IF bmi >= 3000 THEN {"obese"} ELSE {})

BoundaryBmis == {0, 1849, 1850, 1851, 2499, 2500, 2501, 2999, 3000, 3001, 9999}

\* C24: the category computed for a BMI is underweight below 18.5, normal from
\* 18.5 to below 25.0, overweight from 25.0 to below 30.0 and obese from 30.0
\* on, the three boundary values falling in the upper category, and it is the
\* only category the BMI has
C24_BmiCategory ==
    /\ hm_pc # "start" =>
         /\ hm.bmi >= 0
         /\ StatedCategories(hm.bmi) = {hm.bmi_category}
    /\ \A b \in BoundaryBmis : StatedCategories(b) = {_get_bmi_category(b)}

C24_Witness == hm_pc = "adjust" /\ hm.bmi = 1850 /\ hm.bmi_category = "normal"

C24_OverweightWitness == hm_pc = "adjust" /\ hm.bmi = 2500 /\ hm.bmi_category = "overweight"

C24_ObeseWitness == hm_pc = "adjust" /\ hm.bmi = 3000 /\ hm.bmi_category = "obese"

\* C25: for every valid demographics, lifestyle and goals, the goals without a
\* target weight included, calculate_metrics raises nothing and returns a
\* HealthMetrics and a DailyTargets object, leaving all state outside the call
\* as it was
C25_CalculateTotal ==
    /\ hm_pc # "raised"
    /\ hm_pc = "done" => hm.health_metrics # NoneRec /\ hm.daily_targets # NoneRec
    /\ ps_files = << >>

C25_NoTargetWeightRaises ==
    hm_pc = "raised" /\ hm_in.goals.target_weight_kg = NoneNum /\ schemas = "schemas_old"

C25_MetricsRaise ==
    hm_pc = "raised" /\ hm_in.goals.target_weight_kg # NoneNum /\ schemas = "schemas_v2"

C25_SmallTargetsRaise ==
    hm_pc = "raised" /\ hm.health_metrics # NoneRec /\ schemas = "schemas_old"

C25_Done == hm_pc = "done"


FixedErrorCodes == {"IMAGE_DECODE_ERROR", "IMAGE_PROCESSING_FAILED", "PRODUCT_NOT_FOUND",
                    "PROFILE_NOT_FOUND", "INTERNAL_ERROR"}

\* the error code of an error event: the field error_code, or the field error
\* of the events that have no error_code
ErrorCodeOf(kw) == IF "error_code" \in DOMAIN kw THEN kw.error_code ELSE kw.error

\* C27: every error notification carries an error code of the fixed set, a
\* message and an explicit recoverable flag
C27_ErrorShape ==
    \A i \in 1..Len(emitted) :
        IsError(emitted[i]) =>
            /\ ErrorCodeOf(emitted[i].kw) \in FixedErrorCodes
            /\ "message" \in DOMAIN emitted[i].kw
            /\ "recoverable" \in DOMAIN emitted[i].kw
            /\ emitted[i].kw.recoverable \in BOOLEAN

C27_InternalErrorWitness ==
    /\ pc = "done"
    /\ Len(emitted) = 6
    /\ IsError(emitted[6])
    /\ emitted[6].kw.error = "INTERNAL_ERROR"


(***************************************************************************)
(* Concurrent scans, under SpecCc.                                         *)
(***************************************************************************)
\* the citations score() of scan s returns, or would return now
CitationsOf(s) ==
    IF cc_pc[s] = "in_agent" THEN generate_citation_objects(cc_loc[s].mgr)
    ELSE cc_loc[s].citations

\* C28: under every interleaving the citations of each scan are numbered from
\* 1 without gaps and every one of them is a source of the scan's own
\* product, whatever the other scans registered
C28_OwnLedger ==
    \A s \in Scans :
        LET c == CitationsOf(s)
        IN  \A i \in 1..Len(c) :
                /\ c[i].id = i
                /\ c[i].url = PrimarySourceUrl(cc_loc[s].nutrition_data)

C28_Witness ==
    /\ cc_pc[1] = "done" /\ cc_pc[2] = "in_agent"
    /\ Len(CitationsOf(1)) = 1 /\ Len(CitationsOf(2)) = 1
    /\ CitationsOf(1)[1].id = 1 /\ CitationsOf(2)[1].id = 1
    /\ CitationsOf(1)[1].url # CitationsOf(2)[1].url

ExternalCalls == {"in_image", "in_lookup", "in_load", "in_agent"}

\* C30: while a scan is inside an external call (image analysis, provider
\* lookup, profile load, agent invocation) it does not hold the event loop, so
\* the other scans and the keep-alive task can take their steps
C30_ExternalCallsYield ==
    \A s \in Scans : cc_pc[s] \in ExternalCalls => cc_holder # s

C30_LookupYields == \E s \in Scans : cc_pc[s] = "in_lookup" /\ cc_holder = 0

C30_AgentHolds ==
    /\ cc_pc[1] = "in_agent" /\ cc_holder = 1
    /\ cc_pc[2] = "in_lookup"
    /\ cc_ka = "pinging"


\* C33: the simplified handler answers every valid scan request with exactly
\* five progress notifications, numbered 1 to 5 with strictly increasing
\* progress, then exactly one scan_complete carrying the mock assessment, and
\* no scan_error
C33_SimpleScanCompletes ==
    (pc \in {"done", "escaped"} /\ scan_no > 0 /\ data.isdict
     /\ ScanRequestValid(data.fields)) =>
        /\ pc = "done"
        /\ Len(emitted) = 6
        /\ \A i \in 1..5 :
              /\ IsProgress(emitted[i])
              /\ emitted[i].kw.stage_number = i
              /\ i > 1 => emitted[i].kw.progress > emitted[i - 1].kw.progress
        /\ IsComplete(emitted[6])
        /\ emitted[6].kw.detailed_assessment = MockAssessment(scan_no)


\* a required field for which the record has no value: the key is absent or
\* the value is None
HasNoValue(raw_data, f) ==
    \/ f \notin DOMAIN raw_data
    \/ IF f = "product_name" THEN raw_data[f] = NoneText ELSE raw_data[f] = NoneNum

\* the quality score as the specification states it, in thousandths
StatedQuality(raw_data) ==
    LET missing == {i \in 1..Len(RequiredFields) : HasNoValue(raw_data, RequiredFields[i])}
        bad == {i \in 1..Len(NumericFields) : Uncoercible(raw_data, NumericFields[i])}
        q == 1000 - 200 * Cardinality(missing) - 50 * Cardinality(bad)
        conf == IF "confidence" \in DOMAIN raw_data THEN raw_data.confidence ELSE 1000
    IN  Max(IF conf < 700 THEN (q * conf) \div 1000 ELSE q, 0)

\* C34: the quality score the cleaner returns is 1.0 minus 0.2 per required
\* field without a value, minus 0.05 per numeric field that cannot be
\* coerced, times the confidence when that is below 0.7, floored at 0, and
\* lies within [0, 1]
C34_QualityScore ==
    sc_dq # -1 =>
        /\ sc_dq = StatedQuality(sc_in.nutrition_data)
        /\ sc_dq >= 0 /\ sc_dq <= 1000

C34_ZeroFatPenalised ==
    /\ sc_dq = 800
    /\ sc_in.nutrition_data.fat_g = 0
    /\ sc_in.nutrition_data.confidence = 900


AuthoritativeTypes == {"openfoodfacts", "who", "fda", "usda"}
GenericWebType == "searxng"

\* C35: the authority score of a citation depends only on its source type;
\* the authoritative, government and database types score above all others,
\* the generic web-search type scores below all others, and an unknown type
\* scores strictly between the two
C35_AuthorityTable ==
    LET c == generate_citation_objects(led)
    IN  \A i \in 1..Len(c), j \in 1..Len(c) :
            /\ c[i].source_type = c[j].source_type =>
                   c[i].authority_score = c[j].authority_score
            /\ (c[i].source_type \in AuthoritativeTypes
                /\ c[j].source_type \notin AuthoritativeTypes) =>
                   c[i].authority_score > c[j].authority_score
            /\ (c[i].source_type = GenericWebType /\ c[j].source_type # GenericWebType) =>
                   c[i].authority_score < c[j].authority_score

C35_UnknownBelowWeb ==
    LET c == generate_citation_objects(led)
    IN  /\ Len(c) = 2
        /\ c[1].source_type = "searxng" /\ c[1].authority_score = 700
        /\ c[2].source_type = "blog" /\ c[2].authority_score = 600


\* the chain step that resolved the record returned
ResolvedBy(step) ==
    /\ AggDone
    /\ ag_result # NoneRec
    /\ Len(ag_calls) > 0
    /\ ag_calls[Len(ag_calls)] = step

\* the records the exact barcode lookup can return
BarcodeLookupRecords ==
    { get_by_barcode(b, r) : b \in {x \in BarcodeArgs : TruthyText(x)},
                             r \in ProviderResponses } \ {NoneRec}

\* C32: the record returned carries the chain step that resolved it, so a
\* record the text search found differs from every record the barcode lookup
\* can return
C32_TaggedByStep ==
    ResolvedBy("search_by_text") => ag_result \notin BarcodeLookupRecords

C32_SameRecordBySearch ==
    /\ ResolvedBy("search_by_text")
    /\ ag_in.barcode = None
    /\ ag_result = get_by_barcode("3017620422003", ag_in.search_response)
    /\ ag_result.data_source = "openfoodfacts"


\* score() went past the allergen gate and reached the call of the agent
ReachedAgent == sc_pc \in {"agent", "except"} \/ (sc_pc = "done" /\ ~GateFired)

\* C36: whenever scoring goes past the allergen gate with a record of the
\* authoritative database, the primary-source citation is in the ledger with
\* id 1 before the agent is invoked, on the agent path and on the fallback
\* path, for a record of the barcode lookup (with barcode) and of the text
\* search (possibly without) alike
C36_PrimarySourceBeforeAgent ==
    (ReachedAgent /\ sc_in.nutrition_data.data_source = "openfoodfacts") =>
        /\ Len(sc_mgr.sources) >= 1
        /\ sc_mgr.sources[1].id = 1
        /\ sc_mgr.sources[1].source_type = "openfoodfacts"
        /\ \A i \in 1..Len(sc_steps) :
              sc_steps[i] = "agent.forward" =>
                  \E j \in 1..(i - 1) : sc_steps[j] = "add_source"

C36_NoBarcodeNoCitation ==
    /\ sc_pc = "agent"
    /\ sc_in.nutrition_data.data_source = "openfoodfacts"
    /\ sc_in.nutrition_data.barcode = None
    /\ sc_mgr.sources = <<>>


\* the entries of a list of messages
Has(list, text) == \E i \in 1..Len(list) : list[i] = text

\* C37: the fallback's score is one of 1, 2, ..., 7; its verdict is good only
\* when neither penalty and both bonuses apply; sugar and sodium contribute
\* one entry each, a warning or a highlight and never both, so warnings and
\* highlights together hold 2 to 4 entries
C37_FallbackShape ==
    FallbackRan =>
        LET nd == sc_in.nutrition_data
            t == sc_in.user_profile.daily_targets
            r == sc_result
        IN  /\ r.score \in {10, 20, 30, 40, 50, 60, 70}
            /\ r.verdict = "good" =>
                  /\ ~(2 * nd.sugar_g > t.sugar_g)
                  /\ ~(10 * nd.sodium_mg > 3 * t.sodium_mg)
                  /\ nd.protein_g > 10
                  /\ nd.fiber_g # NoneNum /\ nd.fiber_g > 5
            /\ Has(r.warnings, "High sugar content") # Has(r.highlights, "Low sugar")
            /\ Has(r.warnings, "High sodium") # Has(r.highlights, "Low sodium")
            /\ ~Has(r.highlights, "High sugar content") /\ ~Has(r.warnings, "Low sugar")
            /\ ~Has(r.highlights, "High sodium") /\ ~Has(r.warnings, "Low sodium")
            /\ Len(r.warnings) + Len(r.highlights) >= 2
            /\ Len(r.warnings) + Len(r.highlights) <= 4

C37_Witness ==
    /\ FallbackRan
    /\ sc_result.score = 70
    /\ sc_result.verdict = "good"
    /\ sc_result.warnings = <<>>
    /\ Len(sc_result.highlights) = 4

C37_LowestWitness ==
    /\ FallbackRan
    /\ sc_result.score = 10
    /\ Len(sc_result.warnings) = 2
    /\ sc_result.highlights = <<>>


\* the verdict the specification gives a verdict string: the keywords are
\* looked for in the lower-cased string, "good" first
StatedVerdict(verdict_str) ==
    IF IsSubstring(W_good, Lower(verdict_str)) THEN "good"
    ELSE IF IsSubstring(W_avoid, Lower(verdict_str)) THEN "avoid"
    ELSE "moderate"

\* C39: on the agent path the verdict of the result is that of the agent's
\* verdict string alone: good when it contains "good", also next to "avoid",
\* avoid when it contains only "avoid", whatever the score is
C39_VerdictKeywordOrder ==
    (ScoreDone /\ AgentPath) =>
        LET v == sc_in.agent_out.result.verdict
        IN  /\ sc_result.verdict = StatedVerdict(v)
            /\ (IsSubstring(W_good, Lower(v)) /\ IsSubstring(W_avoid, Lower(v))) =>
                  sc_result.verdict = "good"
            /\ (~IsSubstring(W_good, Lower(v)) /\ IsSubstring(W_avoid, Lower(v))) =>
                  sc_result.verdict = "avoid"

C39_Witness ==
    /\ ScoreDone
    /\ AgentPath
    /\ sc_in.agent_out.result.verdict = W_goodOrAvoid
    /\ sc_result.verdict = "good"
    /\ sc_result.score = 50

\* an agent verdict of avoid next to the highest score
C39_AvoidWitness ==
    /\ ScoreDone
    /\ AgentPath
    /\ sc_in.agent_out.result.verdict = W_AVOID
    /\ sc_result.verdict = "avoid"
    /\ sc_result.score = 100


\* C38: two names never address the same stored profile: a load answers only
\* with a profile of the name asked for, and a create is rejected as existing
\* only if a profile of that very name is stored
C38_IdentityFollowsName ==
    \A t \in Slots :
        LET task == ps_task[t]
            content == ps_files[_get_profile_path(task.name)]
        IN  /\ (task.pc = "done" /\ task.op \in {"fetch", "scan_load"}
                /\ task.resp \in {"200", "loaded"}) =>
                   task.profile.name = task.name
            /\ (task.pc = "done" /\ task.op = "create" /\ task.resp = "409"
                /\ HoldsProfile(content)) =>
                   content.name = task.name

C38_LoadOfOtherName ==
    /\ ps_task[2].pc = "done"
    /\ ps_task[2].op = "fetch"
    /\ ps_task[2].name = N_Asha
    /\ ps_task[2].resp = "200"
    /\ ps_task[2].profile.name = N_asha

C38_CreateRejected ==
    /\ ps_task[1].pc = "done"
    /\ ps_task[1].op = "create"
    /\ ps_task[1].name = N_Asha
    /\ ps_task[1].resp = "409"
    /\ ps_files[N_asha].name = N_asha


(***************************************************************************)
(* Properties of the keep-alive                                            *)
(***************************************************************************)
\* a ping loop that is active: its task is not done and was not cancelled
LoopActive(t) == TaskPending(ka_tasks[t]) /\ ~ka_tasks[t].cancel

\* the tasks that start() has created so far
CreatedTasks(tasks) == {t \in KaTasks : tasks[t].pc # "none"}

C31_State ==
    /\ ka_app = "startup" => CreatedTasks(ka_tasks) = {}
    /\ ka_app \in {"serving", "shutdown", "down"} =>
           /\ Cardinality({t \in KaTasks : LoopActive(t)}) <= 1
           /\ \A t \in KaTasks : LoopActive(t) => (ka._running /\ ka.task = t)
           /\ ~ka_obs.late
    /\ ka_app = "down" => (~ka._running /\ \A t \in KaTasks : ~LoopActive(t))

C31_Step ==
    /\ (ka_app = "startup" /\ ka_app' = "serving") =>
           (ka'._running /\ Cardinality(CreatedTasks(ka_tasks')) = 1)
    /\ (ka_app = "serving" /\ ka._running /\ ka'._running) =>
           (ka'.task = ka.task /\ CreatedTasks(ka_tasks') = CreatedTasks(ka_tasks))
    /\ (ka_app # "startup" /\ ~ka._running) =>
           \A t \in KaTasks : ka_tasks'[t].pc = "ping" => ka_tasks[t].pc = "ping"
    /\ ka_app \in {"shutdown", "down"} => ka_app' \in {"shutdown", "down"}

\* C31: at most one ping loop is active at a time and a start() while
\* running changes nothing; a loop is active only while _running, that is
\* between a start() and the next stop(); no ping is sent while the
\* keep-alive is stopped; lifespan starts one loop at startup and none is
\* active once its stop() at shutdown has returned.
C31_OneSupervisedLoop == []C31_State /\ [][C31_Step]_vars

\* a stop() has returned after it cancelled a loop that had pinged, and a
\* later start() has a second loop running
C31_Witness ==
    /\ ka_app = "serving"
    /\ ka_obs.last # "None"
    /\ \E c \in KaCallers : ka_calls[c].pc = "returned"
    /\ \A c \in KaCallers : ka_calls[c].pc # "awaiting"
    /\ ka_tasks[1].pc = "cancelled"
    /\ ka._running
    /\ ka.task = 2
    /\ ka_tasks[2].pc = "ping"

\* the server is down: the stop() of shutdown has returned
C31_ShutdownWitness ==
    /\ ka_app = "down"
    /\ ka_calls[Lifespan].pc = "returned"
    /\ ka_tasks[1].pc = "cancelled"
    /\ ka_obs.last = "200"

C40_State ==
    /\ ka_app # "startup" =>
           \A t \in KaTasks :
               (ka._running /\ ka.task = t /\ ~ka_tasks[t].cancel) =>
                   TaskPending(ka_tasks[t])
    /\ ka_obs.gap \in {NoneNum, IntervalTicks}

C40_RaisedWitness ==
    /\ ka_app = "serving"
    /\ ka._running
    /\ ka_tasks[ka.task].pc = "ping"
    /\ ka_obs.last = "raised"
    /\ ka_obs.gap = IntervalTicks

====
